---- MODULE Spec2Model ----
(***************************************************************************)
(* A model of the accessibility test suite: the audit rule filter          *)
(* (runAxe), the DOM heuristics of TestHelpers / BasePage (heading         *)
(* hierarchy, image alt-text accounting, ARIA role validation, keyboard    *)
(* navigation) and the values they return.                                 *)
(*                                                                         *)
(* Strings are sequences of one-character strings, so that toLowerCase,    *)
(* trim, charAt and template concatenation are computed, not assumed.      *)
(* JavaScript numbers that leave the integers (the alt-text percentage)    *)
(* are IEEE-754 doubles: a 53-bit significand, most significant bit first, *)
(* and a binary exponent, rounded to nearest, ties to even.                *)
(***************************************************************************)
EXTENDS Integers, Sequences, FiniteSets, TLC

VARIABLES
  \* runAxe
  options,            \* the caller's AxeScanOptions (each field may be absent)
  sites,              \* data/sites.json: wcagTags, excludeRules
  axeRules,           \* data/axe.lighthouse.rules.json
  axePc,              \* position inside runAxe
  withTagsArg,        \* argument AxeBuilder.withTags received
  withRulesArg,       \* argument AxeBuilder.withRules received
  axeResults,         \* what builder.analyze() resolved to
  attachments,        \* testInfo attachments
  axeReturned,        \* the value runAxe resolved to
  \* checkHeadingHierarchy
  headings,           \* tagName of every h1..h6 element, in document order
  headingResult,      \* result per implementation
  \* checkImageAccessibility
  images,             \* alt / role attribute of every img element
  imageResult,
  \* checkARIAImplementation
  elements,           \* tag and role attribute of the page's elements
  ariaResult,
  \* testKeyboardNavigation
  focusableElements,  \* number of elements the focusable locator matches
  maxElements,        \* the maxElements argument
  kbPc,               \* position inside testKeyboardNavigation
  kbI,                \* loop variable i
  navigatedElements,  \* local counter
  kbCalls,            \* browser calls made so far, in order
  kbResult,           \* the value returned, or the error raised
  \* error capture: the bucket fixtures and the console-message suites
  suite,              \* which suite runs: "fixtures", "tracking", "detection"
  testNo,             \* the test of the suite that is running
  tPc,                \* position of that test in its life cycle
  pageOpen,           \* the test's page exists and is not closed
  listeners,          \* <<test, event>> of every listener attached by page.on
  buckets,            \* per test, the arrays of the three bucket fixtures
  shared,             \* describe-level arrays: messages, warnings, infoMessages
  pending,            \* console messages whose handler awaits its arguments
  emitted,            \* every event the pages emitted, in order
  softFailures,       \* per test, the soft assertions that failed
  outcome,            \* per test: "none", "passed", "failed"
  atAssert,           \* per test, what the end-of-test assertion saw
  consoleReport,      \* the report the detection suite attached last
  \* the tests that call the audit engine
  auTest,             \* which test runs
  auEnv,              \* what the environment and the page under test are like
  auPc,               \* position of the test
  axeInDocument,      \* window.axe is defined in the page's current document
  auAnalysis,         \* how the audit call ended, and what it reported
  auFallback,         \* the fallback check: "none", "passed", "failed"
  auOutcome,          \* the test's outcome and what failed it
  \* calls of the heuristic checks, one after the other on one page
  chCheck,            \* which check is called
  chPlan,             \* the implementations called, in order
  chResults,          \* what the calls made so far returned
  focusVisible,       \* per focusable element: it shows when it has focus
  tabWraps,           \* Tab on the last element focuses the first one
  focused             \* the focused element (0: none)

axeVars     == <<options, sites, axeRules, axePc, withTagsArg, withRulesArg,
                 axeResults, attachments, axeReturned>>
headingVars == <<headings, headingResult>>
imageVars   == <<images, imageResult>>
ariaVars    == <<elements, ariaResult>>
kbVars      == <<focusableElements, maxElements, kbPc, kbI, navigatedElements,
                 kbCalls, kbResult>>
errVars     == <<suite, testNo, tPc, pageOpen, listeners, buckets, shared,
                 pending, emitted, softFailures, outcome, atAssert, consoleReport>>
auditVars   == <<auTest, auEnv, auPc, axeInDocument, auAnalysis, auFallback,
                 auOutcome>>
checkVars   == <<chCheck, chPlan, chResults, focusVisible, tabWraps, focused>>
vars        == <<axeVars, headingVars, imageVars, ariaVars, kbVars, errVars,
                 auditVars, checkVars>>

(***************************************************************************)
(* Bounds of the model.                                                    *)
(***************************************************************************)
MaxInclude   == 3
MaxExclude   == 2
MaxHeadings  == 3
MaxImages    == 3
MaxRoleElems == 2
MaxFocusable == 6
MaxEvents    == 2

(***************************************************************************)
(* JavaScript values: null, strings, truthiness.                           *)
(***************************************************************************)
Null == [isNull |-> TRUE, str |-> <<>>]

Str(s) == [isNull |-> FALSE, str |-> s]

\* !!v for a value that is null or a string
Truthy(v) == ~v.isNull /\ v.str # <<>>

Upper == <<"A","B","C","D","E","F","G","H","I","J","K","L","M",
           "N","O","P","Q","R","S","T","U","V","W","X","Y","Z">>

Lower == <<"a","b","c","d","e","f","g","h","i","j","k","l","m",
           "n","o","p","q","r","s","t","u","v","w","x","y","z">>

LowerChar(c) ==
  IF \E k \in 1..26 : Upper[k] = c
    THEN Lower[CHOOSE k \in 1..26 : Upper[k] = c]
    ELSE c

\* String.prototype.toLowerCase
ToLowerCase(s) == [k \in 1..Len(s) |-> LowerChar(s[k])]

Whitespace == {" ", "\t", "\n", "\r"}

RECURSIVE TrimStart(_)
TrimStart(s) ==
  IF s # <<>> /\ Head(s) \in Whitespace THEN TrimStart(Tail(s)) ELSE s

RECURSIVE TrimEnd(_)
TrimEnd(s) ==
  IF s # <<>> /\ s[Len(s)] \in Whitespace
    THEN TrimEnd(SubSeq(s, 1, Len(s) - 1))
    ELSE s

\* String.prototype.trim
Trim(s) == TrimEnd(TrimStart(s))

\* String.prototype.charAt (0-based); "" when out of range
CharAt(s, k) == IF k + 1 \in 1..Len(s) THEN s[k + 1] ELSE ""

Digits == <<"0","1","2","3","4","5","6","7","8","9">>

NaN == -1

\* parseInt of a one-character string: the digit's value, NaN otherwise
ParseInt(c) ==
  IF \E k \in 1..10 : Digits[k] = c
    THEN (CHOOSE k \in 1..10 : Digits[k] = c) - 1
    ELSE NaN

Abs(n) == IF n < 0 THEN -n ELSE n

Min(a, b) == IF a < b THEN a ELSE b

\* s occurs in t as a contiguous substring
Contains(t, s) ==
  \E k \in 0..(Len(t) - Len(s)) : SubSeq(t, k + 1, k + Len(s)) = s

(***************************************************************************)
(* Naturals of any size: bit sequences, most significant bit first.        *)
(* Carries are propagated by halving the sequence, low half first.         *)
(***************************************************************************)
RECURSIVE NatBits(_)
NatBits(n) == IF n = 0 THEN <<>> ELSE Append(NatBits(n \div 2), n % 2)

RECURSIVE Pow2(_)
Pow2(k) == IF k = 0 THEN 1 ELSE 2 * Pow2(k - 1)

Zeros(k) == [j \in 1..k |-> 0]

StripZeros(b) ==
  IF \A k \in 1..Len(b) : b[k] = 0 THEN <<>>
  ELSE SubSeq(b, CHOOSE k \in 1..Len(b) : b[k] = 1 /\ \A j \in 1..(k - 1) : b[j] = 0,
              Len(b))

\* b * c + carry for a small natural c: the low Len(b) bits and the carry out
RECURSIVE MulCarry(_, _, _)
MulCarry(b, c, carry) ==
  IF carry = 0 /\ b = Zeros(Len(b)) THEN [bits |-> b, carry |-> 0]
  ELSE IF Len(b) = 0 THEN [bits |-> <<>>, carry |-> carry]
  ELSE IF Len(b) = 1
    THEN [bits |-> <<(b[1] * c + carry) % 2>>, carry |-> (b[1] * c + carry) \div 2]
    ELSE LET h  == Len(b) \div 2
             lo == MulCarry(SubSeq(b, h + 1, Len(b)), c, carry)
             hi == MulCarry(SubSeq(b, 1, h), c, lo.carry)
         IN  [bits |-> hi.bits \o lo.bits, carry |-> hi.carry]

BigMulSmall(b, c) ==
  LET r == MulCarry(b, c, 0) IN StripZeros(NatBits(r.carry) \o r.bits)

\* a + b + carry for two bit sequences of the same length
RECURSIVE AddCarry(_, _, _)
AddCarry(a, b, carry) ==
  IF carry = 0 /\ b = Zeros(Len(b)) THEN [bits |-> a, carry |-> 0]
  ELSE IF Len(a) = 0 THEN [bits |-> <<>>, carry |-> carry]
  ELSE IF Len(a) = 1
    THEN [bits |-> <<(a[1] + b[1] + carry) % 2>>, carry |-> (a[1] + b[1] + carry) \div 2]
    ELSE LET h  == Len(a) \div 2
             lo == AddCarry(SubSeq(a, h + 1, Len(a)), SubSeq(b, h + 1, Len(b)), carry)
             hi == AddCarry(SubSeq(a, 1, h), SubSeq(b, 1, h), lo.carry)
         IN  [bits |-> hi.bits \o lo.bits, carry |-> hi.carry]

PadTo(a, n) == Zeros(n - Len(a)) \o a

BigAdd(a, b) ==
  LET n == IF Len(a) > Len(b) THEN Len(a) ELSE Len(b)
      r == AddCarry(PadTo(a, n), PadTo(b, n), 0)
  IN  StripZeros(<<r.carry>> \o r.bits)

BigShl(a, k) == a \o Zeros(k)

\* lexicographic comparison of two bit sequences of the same length
RECURSIVE LexLeq(_, _)
LexLeq(a, b) ==
  IF a = b THEN TRUE
  ELSE IF Len(a) = 1 THEN a[1] < b[1]
  ELSE LET h == Len(a) \div 2
       IN  IF SubSeq(a, 1, h) = SubSeq(b, 1, h)
             THEN LexLeq(SubSeq(a, h + 1, Len(a)), SubSeq(b, h + 1, Len(b)))
             ELSE LexLeq(SubSeq(a, 1, h), SubSeq(b, 1, h))

BigLeq(a, b) ==
  LET x == StripZeros(a)
      y == StripZeros(b)
  IN  IF Len(x) # Len(y) THEN Len(x) < Len(y) ELSE LexLeq(x, y)

(***************************************************************************)
(* IEEE-754 binary64, for the positive values the percentage takes.        *)
(* A double is zero, or sig * 2^exp with sig a 53-bit significand whose    *)
(* first bit is 1.                                                         *)
(***************************************************************************)
SignificandBits == 53

DZero == [kind |-> "zero", sig |-> <<>>, exp |-> 0]

DNaN == [kind |-> "nan", sig |-> <<>>, exp |-> 0]

DInfinity == [kind |-> "inf", sig |-> <<>>, exp |-> 0]

\* The double nearest to bits * 2^e (+ a nonzero fraction of the last place
\* when sticky), ties to even.  bits starts with 1.
RoundToDouble(bits, e, sticky) ==
  LET L == Len(bits)
  IN  IF L <= SignificandBits
        THEN [kind |-> "num",
              sig  |-> bits \o Zeros(SignificandBits - L),
              exp  |-> e - (SignificandBits - L)]
        ELSE LET kept  == SubSeq(bits, 1, SignificandBits)
                 guard == bits[SignificandBits + 1]
                 rest  == sticky \/ \E k \in (SignificandBits + 2)..L : bits[k] = 1
                 up    == guard = 1 /\ (rest \/ kept[SignificandBits] = 1)
                 inc   == BigAdd(kept, <<1>>)
                 e1    == e + (L - SignificandBits)
             IN  IF ~up THEN [kind |-> "num", sig |-> kept, exp |-> e1]
                 ELSE IF Len(inc) > SignificandBits
                   THEN [kind |-> "num", sig |-> SubSeq(inc, 1, SignificandBits),
                         exp |-> e1 + 1]
                   ELSE [kind |-> "num", sig |-> inc, exp |-> e1]

DFromNat(n) == IF n = 0 THEN DZero ELSE RoundToDouble(NatBits(n), 0, FALSE)

\* binary long division: the next n fractional bits of r / t (r < t) and the
\* remainder left after them
RECURSIVE DivBits(_, _, _)
DivBits(r, t, n) ==
  IF r = 0 \/ n = 0 THEN [bits |-> Zeros(n), rem |-> r]
  ELSE IF n = 1
    THEN [bits |-> <<(2 * r) \div t>>, rem |-> (2 * r) % t]
    ELSE LET h  == n \div 2
             hi == DivBits(r, t, h)
             lo == DivBits(hi.rem, t, n - h)
         IN  [bits |-> hi.bits \o lo.bits, rem |-> lo.rem]

\* fractional zero bits before the first 1 bit of w / t, for 0 < w < t
LeadingZeros(w, t) ==
  CHOOSE z \in 0..30 : w * Pow2(z + 1) >= t /\ w * Pow2(z) < t

\* the JavaScript quotient w / t of two small naturals
DDiv(w, t) ==
  IF t = 0 THEN (IF w = 0 THEN DNaN ELSE DInfinity)
  ELSE IF w = 0 THEN DZero
  ELSE LET ip == NatBits(w \div t)
           n  == IF ip = <<>> THEN LeadingZeros(w, t) + SignificandBits + 1
                 ELSE SignificandBits + 1 - Len(ip)
           d  == DivBits(w % t, t, n)
       IN  RoundToDouble(StripZeros(ip \o d.bits), -n, d.rem # 0)

\* the JavaScript product d * c of a double and a small positive natural
DMulNat(d, c) ==
  IF d.kind = "num"
    THEN RoundToDouble(BigMulSmall(d.sig, c), d.exp, FALSE)
    ELSE d

\* a <= b on doubles (false when either is NaN)
DLeq(a, b) ==
  IF a.kind = "nan" \/ b.kind = "nan" THEN FALSE
  ELSE IF a.kind = "zero" \/ b.kind = "inf" THEN TRUE
  ELSE IF b.kind = "zero" \/ a.kind = "inf" THEN FALSE
  ELSE IF a.exp # b.exp THEN a.exp < b.exp
  ELSE LexLeq(a.sig, b.sig)

DLess(a, b) == DLeq(a, b) /\ a # b

(***************************************************************************)
(* checkImageAccessibility                                                 *)
(***************************************************************************)
NoResult == [done |-> FALSE]

Chars_presentation == <<"p","r","e","s","e","n","t","a","t","i","o","n">>

Chars_none == <<"n","o","n","e">>

Chars_img == <<"i","m","g">>

Chars_cat == <<"c","a","t">>

\* the condition without alt.trim(): a blank alt passes as alt text
ImageLacksAltNoTrim(alt, role) ==
  /\ role # Str(Chars_presentation)
  /\ role # Str(Chars_none)
  /\ ~Truthy(alt)

\* the condition of the if statement, for one image
ImageLacksAlt(alt, role) ==
  /\ role # Str(Chars_presentation)
  /\ role # Str(Chars_none)
  /\ (~Truthy(alt) \/ Trim(alt.str) = <<>>)

RECURSIVE CountWithoutAlt(_)
CountWithoutAlt(imgs) ==
  IF imgs = <<>> THEN 0
  ELSE (IF ImageLacksAlt(Head(imgs).alt, Head(imgs).role) THEN 1 ELSE 0)
         + CountWithoutAlt(Tail(imgs))

\* the ratio without the totalImages > 0 guard
PercentageUnguarded(without, total) == DMulNat(DDiv(without, total), 100)

PercentageWithoutAlt(without, total) ==
  IF total > 0 THEN DMulNat(DDiv(without, total), 100) ELSE DZero

CheckImageAccessibility(imgs) ==
  LET imagesWithoutAlt == CountWithoutAlt(imgs)
      totalImages      == Len(imgs)
  IN  [done |-> TRUE,
       totalImages |-> totalImages,
       imagesWithoutAlt |-> imagesWithoutAlt,
       percentageWithoutAlt |-> PercentageWithoutAlt(imagesWithoutAlt, totalImages)]

\* BasePage.checkImageAccessibility: the same statements, on getImages()
BasePageImageLacksAlt(alt, role) ==
  /\ role # Str(Chars_presentation)
  /\ role # Str(Chars_none)
  /\ (~Truthy(alt) \/ Trim(alt.str) = <<>>)

RECURSIVE BasePageCountWithoutAlt(_)
BasePageCountWithoutAlt(imgs) ==
  IF imgs = <<>> THEN 0
  ELSE (IF BasePageImageLacksAlt(Head(imgs).alt, Head(imgs).role) THEN 1 ELSE 0)
         + BasePageCountWithoutAlt(Tail(imgs))

BasePagePercentageWithoutAlt(without, total) ==
  IF total > 0 THEN DMulNat(DDiv(without, total), 100) ELSE DZero

BasePageCheckImageAccessibility(imgs) ==
  LET imagesWithoutAlt == BasePageCountWithoutAlt(imgs)
      totalImages      == Len(imgs)
  IN  [done |-> TRUE,
       totalImages |-> totalImages,
       imagesWithoutAlt |-> imagesWithoutAlt,
       percentageWithoutAlt |->
         BasePagePercentageWithoutAlt(imagesWithoutAlt, totalImages)]

(***************************************************************************)
(* checkHeadingHierarchy                                                   *)
(***************************************************************************)
\* el.tagName of the elements the locator 'h1, h2, h3, h4, h5, h6' matches
HeadingTags == {<<"H", Digits[d + 1]>> : d \in 1..6}

\* parseInt(el.tagName.toLowerCase().charAt(1))
HeadingLevel(tagName) == ParseInt(CharAt(ToLowerCase(tagName), 1))

HeadingLevels(hs) == [k \in 1..Len(hs) |-> HeadingLevel(hs[k])]

FirstHeadingIssue ==
  [msg |-> "First heading should be h1-h3", from |-> 0, to |-> 0]

\* `Heading levels should not skip more than one level (${from} -> ${to})`
SkipIssue(from, to) ==
  [msg |-> "Heading levels should not skip more than one level",
   from |-> from, to |-> to]

FirstHeadingTooDeep(level) == level > 3

\* the rule the message words: no skip of more than one level
SkipsLevelsMoreThanOne(prev, cur) == Abs(cur - prev) > 1

\* the difference without Math.abs
SkipsLevelsDownOnly(prev, cur) == cur - prev > 2

SkipsLevels(prev, cur) == Abs(cur - prev) > 2

\* the for loop over i = 1 .. length-1 (0-based), here k = i + 1
RECURSIVE PairIssues(_, _)
PairIssues(levels, k) ==
  IF k > Len(levels) THEN <<>>
  ELSE (IF SkipsLevels(levels[k - 1], levels[k])
          THEN <<SkipIssue(levels[k - 1], levels[k])>> ELSE <<>>)
       \o PairIssues(levels, k + 1)

HeadingIssues(levels) ==
  IF Len(levels) > 0
    THEN (IF FirstHeadingTooDeep(levels[1]) THEN <<FirstHeadingIssue>> ELSE <<>>)
         \o PairIssues(levels, 2)
    ELSE <<>>

\* the leniency of the enhanced test: fewer than five issues
HeadingVerdictLenient(issues) == Len(issues) < 5

HeadingVerdict(issues) == Len(issues) = 0

CheckHeadingHierarchy(hs) ==
  LET issues == HeadingIssues(HeadingLevels(hs))
  IN  [done |-> TRUE, isValid |-> HeadingVerdict(issues), issues |-> issues]

\* BasePage.checkHeadingHierarchy: the same statements, on getHeadings()
BasePageFirstHeadingTooDeep(level) == level > 3

BasePageSkipsLevels(prev, cur) == Abs(cur - prev) > 2

RECURSIVE BasePagePairIssues(_, _)
BasePagePairIssues(levels, k) ==
  IF k > Len(levels) THEN <<>>
  ELSE (IF BasePageSkipsLevels(levels[k - 1], levels[k])
          THEN <<SkipIssue(levels[k - 1], levels[k])>> ELSE <<>>)
       \o BasePagePairIssues(levels, k + 1)

BasePageHeadingIssues(levels) ==
  IF Len(levels) > 0
    THEN (IF BasePageFirstHeadingTooDeep(levels[1]) THEN <<FirstHeadingIssue>> ELSE <<>>)
         \o BasePagePairIssues(levels, 2)
    ELSE <<>>

BasePageCheckHeadingHierarchy(hs) ==
  LET issues == BasePageHeadingIssues(HeadingLevels(hs))
  IN  [done |-> TRUE, isValid |-> Len(issues) = 0, issues |-> issues]

(***************************************************************************)
(* checkARIAImplementation                                                 *)
(***************************************************************************)
Chars_main == <<"m","a","i","n">>

Chars_navigation == <<"n","a","v","i","g","a","t","i","o","n">>

Chars_banner == <<"b","a","n","n","e","r">>

Chars_contentinfo == <<"c","o","n","t","e","n","t","i","n","f","o">>

ValidRoles ==
  << <<"b","u","t","t","o","n">>,
     <<"l","i","n","k">>,
     <<"n","a","v","i","g","a","t","i","o","n">>,
     <<"m","a","i","n">>,
     <<"b","a","n","n","e","r">>,
     <<"c","o","n","t","e","n","t","i","n","f","o">>,
     <<"c","o","m","p","l","e","m","e","n","t","a","r","y">>,
     <<"s","e","a","r","c","h">>,
     <<"f","o","r","m">>,
     <<"d","i","a","l","o","g">>,
     <<"a","l","e","r","t">>,
     <<"s","t","a","t","u","s">>,
     <<"t","a","b","l","i","s","t">>,
     <<"t","a","b">>,
     <<"t","a","b","p","a","n","e","l">>,
     <<"m","e","n","u">>,
     <<"m","e","n","u","i","t","e","m">>,
     <<"l","i","s","t","b","o","x">>,
     <<"o","p","t","i","o","n">>,
     <<"p","r","o","g","r","e","s","s","b","a","r">>,
     <<"s","l","i","d","e","r">>,
     <<"s","p","i","n","b","u","t","t","o","n">>,
     <<"t","e","x","t","b","o","x">>,
     <<"c","h","e","c","k","b","o","x">>,
     <<"r","a","d","i","o">>,
     <<"i","m","g">>,
     <<"p","r","e","s","e","n","t","a","t","i","o","n">>,
     <<"n","o","n","e">>,
     <<"r","e","g","i","o","n">>,
     <<"a","r","t","i","c","l","e">>,
     <<"s","e","c","t","i","o","n">> >>

\* Array.prototype.includes
Includes(list, x) == \E k \in 1..Len(list) : list[k] = x

\* 'main, [role="main"], nav, [role="navigation"], header, [role="banner"],
\*  footer, [role="contentinfo"]': attribute values are matched as written
MatchesLandmarkSelector(el) ==
  \/ el.tag \in {"main", "nav", "header", "footer"}
  \/ el.role \in {Str(Chars_main), Str(Chars_navigation),
                  Str(Chars_banner), Str(Chars_contentinfo)}

\* landmarks counted only on elements whose role passes the validity check
CountLandmarksWithValidRole(els) ==
  Cardinality({k \in 1..Len(els) :
                 /\ MatchesLandmarkSelector(els[k])
                 /\ (~Truthy(els[k].role)
                       \/ Includes(ValidRoles, ToLowerCase(els[k].role.str)))})

\* locator(...).count()
CountLandmarks(els) ==
  Cardinality({k \in 1..Len(els) : MatchesLandmarkSelector(els[k])})

\* locator('[role]').all(): the elements that carry a role attribute
ElementsWithRole(els) == SelectSeq(els, LAMBDA el : ~el.role.isNull)

\* `Invalid ARIA role: ${role}`
InvalidRolePrefix ==
  <<"I","n","v","a","l","i","d"," ","A","R","I","A"," ","r","o","l","e",":"," ">>

InvalidRoleIssue(role) == InvalidRolePrefix \o role

\* the comparison without toLowerCase()
RoleRejectedAsWritten(role) ==
  Truthy(role) /\ ~Includes(ValidRoles, role.str)

\* role && !validRoles.includes(role.toLowerCase())
RoleRejected(role) ==
  Truthy(role) /\ ~Includes(ValidRoles, ToLowerCase(role.str))

\* the loop leaving at the first rejected role
RECURSIVE RoleLoopFirstOnly(_, _)
RoleLoopFirstOnly(els, acc) ==
  IF els = <<>> THEN acc
  ELSE IF Truthy(Head(els).role)
          /\ ~Includes(ValidRoles, ToLowerCase(Head(els).role.str))
    THEN [issues |-> Append(acc.issues, InvalidRolePrefix \o Head(els).role.str),
          allRolesValid |-> FALSE]
    ELSE RoleLoopFirstOnly(Tail(els), acc)

\* the for loop: acc holds the local variables issues and allRolesValid
RECURSIVE RoleLoop(_, _)
RoleLoop(els, acc) ==
  IF els = <<>> THEN acc
  ELSE RoleLoop(Tail(els),
                IF RoleRejected(Head(els).role)
                  THEN [issues |-> Append(acc.issues, InvalidRoleIssue(Head(els).role.str)),
                        allRolesValid |-> FALSE]
                  ELSE acc)

CheckARIAImplementation(els) ==
  LET landmarks == CountLandmarks(els)
      out == RoleLoop(ElementsWithRole(els), [issues |-> <<>>, allRolesValid |-> TRUE])
  IN  [done |-> TRUE, landmarks |-> landmarks,
       validRoles |-> out.allRolesValid, issues |-> out.issues]

(***************************************************************************)
(* runAxe                                                                  *)
(***************************************************************************)
\* a || b in place of a ?? b: an empty list counts as absent
CoalesceOr(a, b) == IF a.present /\ a.val # <<>> THEN a.val ELSE b

\* a ?? b
Coalesce(a, b) == IF a.present THEN a.val ELSE b

\* new Set(list)
NewSet(list) == {list[k] : k \in DOMAIN list}

\* the filter left out: the include list goes to the engine as it is
FilterRulesUnfiltered(includeRules, excludeRules) == includeRules

\* includeRules.filter((r) => !excludeRules.has(r))
FilterRules(includeRules, excludeRules) ==
  LET Kept(r) == r \notin excludeRules
  IN  SelectSeq(includeRules, Kept)

\* JSON.stringify(results.violations, null, 2), as its sequence of tokens
RECURSIVE StringifyItems(_)
StringifyItems(violations) ==
  IF violations = <<>> THEN <<>>
  ELSE <<"{", "\"id\"", ":", violations[1].id, "}">>
       \o (IF Len(violations) > 1 THEN <<",">> ELSE <<>>)
       \o StringifyItems(Tail(violations))

Stringify(violations) == <<"[">> \o StringifyItems(violations) \o <<"]">>

\* testInfo.attach('axe-violations.json', { body, contentType })
AxeAttachment(violations) ==
  [name |-> "axe-violations.json", body |-> Stringify(violations),
   contentType |-> "application/json"]

(***************************************************************************)
(* testKeyboardNavigation                                                  *)
(***************************************************************************)
\* the default of the maxElements parameter
DefaultMaxElements == 5

\* the guard left out: the body runs on an empty array too
HasFocusableUnchecked(n) == TRUE

\* if (focusableElements.length > 0)
HasFocusable(n) == n > 0

\* maxElements left out of the loop test
LoopContinuesToLast(i, n, max) == i < n

\* i < Math.min(focusableElements.length, maxElements)
LoopContinues(i, n, max) == i < Min(n, max)

\* success reported whatever was observed
KeyboardResultAlwaysSuccess(navigated) ==
  [done |-> TRUE, raised |-> FALSE, success |-> TRUE,
   navigatedElements |-> navigated]

\* { success: navigatedElements > 0, navigatedElements }
KeyboardResult(navigated) ==
  [done |-> TRUE, raised |-> FALSE, success |-> navigated > 0,
   navigatedElements |-> navigated]

\* focusableElements[0].focus() on an empty array: a TypeError
KeyboardTypeError ==
  [done |-> TRUE, raised |-> TRUE, success |-> FALSE, navigatedElements |-> 0]

(***************************************************************************)
(* The inline checks of the accessibility suite, and the keyboard probe on *)
(* a page whose focus order and visibility are given.                      *)
(***************************************************************************)
\* step 'check heading hierarchy': the hard expectations all hold
InlineHeadingCheck(hs) ==
  LET headingLevels == HeadingLevels(hs)
  IN  [done |-> TRUE,
       passed |->
         Len(headingLevels) > 0 =>
           /\ headingLevels[1] <= 3
           /\ \A k \in 2..Len(headingLevels) :
                Abs(headingLevels[k] - headingLevels[k - 1]) <= 2]

\* test 'has proper image accessibility'
InlineImageCheck(imgs) ==
  LET imagesWithoutAlt == CountWithoutAlt(imgs)
      totalImages      == Len(imgs)
      percentageWithoutAlt ==
        IF totalImages > 0 THEN DMulNat(DDiv(imagesWithoutAlt, totalImages), 100)
        ELSE DZero
  IN  [done |-> TRUE,
       percentageWithoutAlt |-> percentageWithoutAlt,
       passed |-> DLess(percentageWithoutAlt, DFromNat(50))]

\* the landmark expectation left out of the inline ARIA test
InlineAriaCheckRolesOnly(els) ==
  [done |-> TRUE,
   passed |->
     \A k \in 1..Len(els) :
       Truthy(els[k].role) => Includes(ValidRoles, ToLowerCase(els[k].role.str))]

\* test 'has proper ARIA implementation': a landmark is expected, then every
\* non-empty role is expected in the list
InlineAriaCheck(els) ==
  [done |-> TRUE,
   passed |->
     /\ CountLandmarks(els) > 0
     /\ \A k \in 1..Len(els) :
          Truthy(els[k].role) => Includes(ValidRoles, ToLowerCase(els[k].role.str))]

\* the element that has focus after Tab is pressed on element p of n
TabTarget(p, n, wraps) ==
  IF p < n THEN p + 1 ELSE IF wraps /\ n > 0 THEN 1 ELSE 0

\* expect(page.locator(':focus')).toBeVisible() resolves
FocusShows(p, visible) == p # 0 /\ visible[p]

\* the first element not focused before the loop: Tab starts where focus is
FocusFirstLeftOut(focus) == focus

\* await focusableElements[0].focus()
FocusFirst(focus) == 1

\* the for loop of testKeyboardNavigation from its i-th round on
RECURSIVE TabLoop(_, _, _, _, _, _, _)
TabLoop(i, navigated, p, n, max, visible, wraps) ==
  IF ~LoopContinues(i, n, max) THEN [navigatedElements |-> navigated, focused |-> p]
  ELSE LET q == TabTarget(p, n, wraps)
       IN  IF FocusShows(q, visible)
             THEN TabLoop(i + 1, navigated + 1, q, n, max, visible, wraps)
             ELSE [navigatedElements |-> navigated, focused |-> q]

\* TestHelpers.testKeyboardNavigation: what it returns and where it leaves
\* the focus
TestKeyboardNavigation(n, max, visible, wraps, focus) ==
  IF HasFocusable(n)
    THEN LET out == TabLoop(0, 0, FocusFirst(focus), n, max, visible, wraps)
         IN  [result |-> KeyboardResult(out.navigatedElements), focused |-> out.focused]
    ELSE [result |-> KeyboardResult(0), focused |-> focus]

\* BasePage.testKeyboardNavigation: the same statements, on
\* getFocusableElements()
RECURSIVE BasePageTabLoop(_, _, _, _, _, _, _)
BasePageTabLoop(i, navigated, p, n, max, visible, wraps) ==
  IF ~(i < Min(n, max)) THEN [navigatedElements |-> navigated, focused |-> p]
  ELSE LET q == TabTarget(p, n, wraps)
       IN  IF FocusShows(q, visible)
             THEN BasePageTabLoop(i + 1, navigated + 1, q, n, max, visible, wraps)
             ELSE [navigatedElements |-> navigated, focused |-> q]

BasePageTestKeyboardNavigation(n, max, visible, wraps, focus) ==
  IF n > 0
    THEN LET out == BasePageTabLoop(0, 0, 1, n, max, visible, wraps)
         IN  [result |-> [done |-> TRUE, raised |-> FALSE,
                          success |-> out.navigatedElements > 0,
                          navigatedElements |-> out.navigatedElements],
              focused |-> out.focused]
    ELSE [result |-> [done |-> TRUE, raised |-> FALSE, success |-> FALSE,
                      navigatedElements |-> 0],
          focused |-> focus]

(***************************************************************************)
(* The parts of the state a specification does not exercise stay idle.     *)
(***************************************************************************)
Absent == [present |-> FALSE, val |-> <<>>]

Given(v) == [present |-> TRUE, val |-> v]

AxeIdle ==
  /\ options = [tags |-> Absent, includeRules |-> Absent, excludeRules |-> Absent]
  /\ sites = [wcagTags |-> <<>>, excludeRules |-> <<>>]
  /\ axeRules = <<>>
  /\ axePc = "idle"
  /\ withTagsArg = Absent
  /\ withRulesArg = Absent
  /\ axeResults = Absent
  /\ attachments = <<>>
  /\ axeReturned = Absent

HeadingIdle ==
  /\ headings = <<>>
  /\ headingResult = [impl \in {"TestHelpers", "BasePage"} |-> NoResult]

ImageIdle ==
  /\ images = <<>>
  /\ imageResult = [impl \in {"TestHelpers", "BasePage"} |-> NoResult]

AriaIdle ==
  /\ elements = <<>>
  /\ ariaResult = NoResult

KbIdle ==
  /\ focusableElements = 0
  /\ maxElements = 0
  /\ kbPc = "idle"
  /\ kbI = 0
  /\ navigatedElements = 0
  /\ kbCalls = <<>>
  /\ kbResult = NoResult

\* all sequences over S of length at most n
Tests == {1, 2}

NoBuckets == [consoleErrors |-> <<>>, pageErrors |-> <<>>, requestFailures |-> <<>>]

NoShared == [messages |-> <<>>, warnings |-> <<>>, infoMessages |-> <<>>]

NotAsserted == [seen |-> FALSE, n |-> 0, texts |-> {}]

NoTypes == [type \in {} |-> 0]

NoReport ==
  [attached |-> FALSE, totalErrors |-> 0, totalWarnings |-> 0, totalInfo |-> 0,
   errorTypes |-> NoTypes, warningTypes |-> NoTypes]

ErrIdle ==
  /\ suite = "none"
  /\ testNo = 1
  /\ tPc = "idle"
  /\ pageOpen = FALSE
  /\ listeners = {}
  /\ buckets = [t \in Tests |-> NoBuckets]
  /\ shared = NoShared
  /\ pending = <<>>
  /\ emitted = <<>>
  /\ softFailures = [t \in Tests |-> <<>>]
  /\ outcome = [t \in Tests |-> "none"]
  /\ atAssert = [t \in Tests |-> NotAsserted]
  /\ consoleReport = NoReport

NoAnalysis == [state |-> "none", violations |-> 0]

NoOutcome == [status |-> "none", by |-> "none"]

AuditIdle ==
  /\ auTest = "none"
  /\ auEnv = [cdnUp |-> FALSE, siteShipsAxe |-> FALSE, fallbackOk |-> FALSE,
              heuristicsOk |-> FALSE]
  /\ auPc = "idle"
  /\ axeInDocument = FALSE
  /\ auAnalysis = NoAnalysis
  /\ auFallback = "none"
  /\ auOutcome = NoOutcome

ChecksIdle ==
  /\ chCheck = "none"
  /\ chPlan = <<>>
  /\ chResults = <<>>
  /\ focusVisible = <<>>
  /\ tabWraps = FALSE
  /\ focused = 0

SeqsUpTo(S, n) == UNION {[1..k -> S] : k \in 0..n}

(***************************************************************************)
(* The tests that call the audit engine, and what they do when it is not   *)
(* available.                                                              *)
(***************************************************************************)
\* a JavaScript value that is a number or undefined
Undefined == [defined |-> FALSE, num |-> 0]

Num(n) == [defined |-> TRUE, num |-> n]

\* expect(received).toBe(expected) throws
ToBeThrows(received, expected) == ~(received.defined /\ received.num = expected)

\* expect(received).toBeLessThan(expected) throws
ToBeLessThanThrows(received, expected) == ~(received.defined /\ received.num < expected)

\* expect(array).toHaveLength(0) throws
ToHaveLengthZeroThrows(count) == count # 0

\* .length of what runAxeAnalysis resolves to: the results object of
\* axe.run, which has a violations array and no length of its own
ResultsLength(report) == Undefined

\* the tests whose beforeEach wraps injectAxeCore in try / catch
HookCatches(test) == test \in {"wcag", "contrast", "comprehensive"}

\* the tests that audit through runAxe (AxeBuilder) and through
\* TestHelpers.runAxeAnalysis (window.axe)
UsesRunAxe(test) == test \in {"wcag", "basic"}

UsesRunAxeAnalysis(test) == test \in {"contrast", "enhanced", "comprehensive"}

\* the assertion that follows the audit call inside the try block throws
AssertionInTryThrows(test, report) ==
  IF test = "contrast" THEN ToHaveLengthZeroThrows(report.violations)
  ELSE IF test = "comprehensive" THEN ToBeThrows(ResultsLength(report), 0)
  ELSE IF test = "enhanced" THEN ToBeLessThanThrows(ResultsLength(report), 20)
  ELSE FALSE

\* the catch block has a check of its own (page title, body text)
HasFallbackCheck(test) == test \in {"wcag", "contrast"}

Failed(by) == [status |-> "failed", by |-> by]

(***************************************************************************)
(* Error capture: the bucket fixtures (test-fixtures.ts) and the listeners *)
(* of the two console-message suites.                                      *)
(***************************************************************************)
\* `[console.${type}] ${msg.text()}`
FormatConsole(type, text) == <<"[console.", type, "] ", text>>

\* `[pageerror] ${err.message}`
FormatPageError(message) == <<"[pageerror] ", message>>

\* `[requestfailed ${req.failure()?.errorText}] ${req.url()}`
FormatRequestFailed(errorText, url) == <<"[requestfailed ", errorText, "] ", url>>

\* the level test left out of the console listener
ConsoleErrorsListenerAnyLevel(bucket, msg) ==
  Append(bucket, FormatConsole(msg.level, msg.text))

\* the console listener of the consoleErrors fixture
ConsoleErrorsListener(bucket, msg) ==
  IF msg.level = "error" THEN Append(bucket, FormatConsole(msg.level, msg.text))
  ELSE bucket

\* the pageerror listener of the pageErrors fixture
PageErrorsListener(bucket, err) == Append(bucket, FormatPageError(err.text))

\* req.failure()?.errorText: undefined when failure() returns null
OptionalErrorText(req) == IF req.hasFailure THEN req.errorText ELSE "undefined"

\* the requestfailed listener of the requestFailures fixture
RequestFailuresListener(bucket, req) ==
  Append(bucket, FormatRequestFailed(OptionalErrorText(req), req.text))

\* what an event does to the buckets of the page's test: only the listeners
\* attached to the page run
FixtureDeliver(b, attached, e) ==
  [consoleErrors |->
     IF e.kind = "console" /\ <<e.page, "console">> \in attached
       THEN ConsoleErrorsListener(b.consoleErrors, e) ELSE b.consoleErrors,
   pageErrors |->
     IF e.kind = "pageerror" /\ <<e.page, "pageerror">> \in attached
       THEN PageErrorsListener(b.pageErrors, e) ELSE b.pageErrors,
   requestFailures |->
     IF e.kind = "requestfailed" /\ <<e.page, "requestfailed">> \in attached
       THEN RequestFailuresListener(b.requestFailures, e) ELSE b.requestFailures]

\* hard assertions in place of the soft ones: the first failure ends the call
ExpectHardEmpty(failures, bucket, name) ==
  IF failures # <<>> THEN failures
  ELSE IF bucket = <<>> THEN failures ELSE Append(failures, name)

\* expect.soft(bucket, message).toEqual([])
ExpectSoftEmpty(failures, bucket, name) ==
  IF bucket = <<>> THEN failures ELSE Append(failures, name)

\* the three assertions of expectNoClientErrors, in order
ExpectNoClientErrorsAsserts(b) ==
  ExpectSoftEmpty(
    ExpectSoftEmpty(
      ExpectSoftEmpty(<<>>, b.consoleErrors, "Console errors"),
      b.pageErrors, "Page errors"),
    b.requestFailures, "Request failures")

\* messages.length = 0 (and the other arrays) left out of beforeEach
ResetSharedKept(arrays) == arrays

\* messages.length = 0; warnings.length = 0; infoMessages.length = 0
ResetShared(arrays) == NoShared

\* the record the console-message suites push for an event
ConsoleMessage(type, text, severity, args) ==
  [type |-> type, text |-> text, severity |-> severity, args |-> args]

\* tests/console-message.spec.ts: console errors and uncaught exceptions
TrackingDeliver(arrays, e) ==
  IF e.kind = "console" /\ e.level = "error"
    THEN [arrays EXCEPT !.messages =
            Append(@, ConsoleMessage(e.level, e.text, "undefined", "undefined"))]
  ELSE IF e.kind = "pageerror"
    THEN [arrays EXCEPT !.messages =
            Append(@, ConsoleMessage("uncaught exception", e.text, "undefined", "undefined"))]
  ELSE arrays

\* the requestfailed listener of the detection suite without its
\* if (failure): a request without a failure record is pushed as well
DetectionRequestFailedUnguarded(arrays, e) ==
  [arrays EXCEPT !.messages =
     Append(@, ConsoleMessage("request failed", e.text, "error", "undefined"))]

\* page.on('requestfailed'): const failure = request.failure(); if (failure)
DetectionRequestFailed(arrays, e) ==
  IF e.hasFailure
    THEN [arrays EXCEPT !.messages =
            Append(@, ConsoleMessage("request failed", e.text, "error", "undefined"))]
    ELSE arrays

\* page.on('response'): if (status >= 400) push to warnings
DetectionResponse(arrays, e) ==
  IF e.status >= 400
    THEN [arrays EXCEPT !.warnings =
            Append(@, ConsoleMessage("http error", e.text, "warning", "undefined"))]
    ELSE arrays

\* tests/accessibility/console-message.spec.ts: the synchronous listeners
DetectionDeliver(arrays, e) ==
  IF e.kind = "pageerror"
    THEN [arrays EXCEPT !.messages =
            Append(@, ConsoleMessage("uncaught exception", e.text, "error", "undefined"))]
  ELSE IF e.kind = "requestfailed" THEN DetectionRequestFailed(arrays, e)
  ELSE IF e.kind = "response" THEN DetectionResponse(arrays, e)
  ELSE arrays

\* the console handler up to its await: the levels it goes on with
DetectionCaptures(msg) == msg.level \in {"error", "warning", "info"}

\* the console handler pushing every captured level to messages
DetectionPushAllToMessages(arrays, msg, args) ==
  [arrays EXCEPT !.messages = Append(@, ConsoleMessage(msg.level, msg.text, msg.level, args))]

\* the console handler after its await: push by level
DetectionPush(arrays, msg, args) ==
  IF msg.level = "error"
    THEN [arrays EXCEPT !.messages = Append(@, ConsoleMessage(msg.level, msg.text, msg.level, args))]
  ELSE IF msg.level = "warning"
    THEN [arrays EXCEPT !.warnings = Append(@, ConsoleMessage(msg.level, msg.text, msg.level, args))]
  ELSE IF msg.level = "info"
    THEN [arrays EXCEPT !.infoMessages = Append(@, ConsoleMessage(msg.level, msg.text, msg.level, args))]
  ELSE arrays

\* msgs.reduce((acc, msg) => { acc[msg.type] = (acc[msg.type] || 0) + 1;
\* return acc; }, {})
RECURSIVE CountTypes(_, _)
CountTypes(msgs, acc) ==
  IF msgs = <<>> THEN acc
  ELSE LET type == Head(msgs).type
       IN  CountTypes(Tail(msgs),
                      [t \in DOMAIN acc \cup {type} |->
                         IF t = type
                           THEN (IF t \in DOMAIN acc THEN acc[t] ELSE 0) + 1
                           ELSE acc[t]])

\* the report of step 'analyze console messages': its summary
DetectionReport(arrays) ==
  [attached |-> TRUE,
   totalErrors |-> Len(arrays.messages),
   totalWarnings |-> Len(arrays.warnings),
   totalInfo |-> Len(arrays.infoMessages),
   errorTypes |-> CountTypes(arrays.messages, NoTypes),
   warningTypes |-> CountTypes(arrays.warnings, NoTypes)]

\* closing the page rejects every jsonValue() still in flight; the handler's
\* catch puts the placeholder in and the push goes ahead
RECURSIVE FlushPending(_, _)
FlushPending(arrays, msgs) ==
  IF msgs = <<>> THEN arrays
  ELSE FlushPending(DetectionPush(arrays, Head(msgs), "[Unable to serialize]"), Tail(msgs))

(***************************************************************************)
(* Specification of the image check: the page holds any images; either     *)
(* implementation may be run on it.                                        *)
(***************************************************************************)
Blank == <<" ", "\t">>

\* the img elements a page may hold: alt absent, empty, blank or a text; role
\* absent, 'presentation', 'none' or another role
ImageElements ==
  { [alt |-> Str(<<>>),      role |-> Null],
    [alt |-> Str(Chars_cat), role |-> Null],
    [alt |-> Null,           role |-> Str(Chars_presentation)],
    [alt |-> Null,           role |-> Null],
    [alt |-> Str(Blank),     role |-> Null],
    [alt |-> Null,           role |-> Str(Chars_none)],
    [alt |-> Str(<<>>),      role |-> Str(Chars_img)],
    [alt |-> Str(Chars_cat), role |-> Str(Chars_presentation)] }

ImageInit ==
  /\ images \in SeqsUpTo(ImageElements, MaxImages)
  /\ imageResult = [impl \in {"TestHelpers", "BasePage"} |-> NoResult]
  /\ AxeIdle /\ HeadingIdle /\ AriaIdle /\ KbIdle /\ ErrIdle /\ AuditIdle /\ ChecksIdle

TestHelpersCheckImageAccessibility ==
  /\ ~imageResult["TestHelpers"].done
  /\ imageResult' = [imageResult EXCEPT !["TestHelpers"] = CheckImageAccessibility(images)]
  /\ UNCHANGED <<images, axeVars, headingVars, ariaVars, kbVars, errVars, auditVars, checkVars>>

BasePageCheckImageAccessibilityCall ==
  /\ ~imageResult["BasePage"].done
  /\ imageResult' = [imageResult EXCEPT !["BasePage"] = BasePageCheckImageAccessibility(images)]
  /\ UNCHANGED <<images, axeVars, headingVars, ariaVars, kbVars, errVars, auditVars, checkVars>>

ImageNext ==
  \/ TestHelpersCheckImageAccessibility
  \/ BasePageCheckImageAccessibilityCall

SpecImage == ImageInit /\ [][ImageNext]_vars

(***************************************************************************)
(* Specification of the heading check.                                     *)
(***************************************************************************)
HeadingInit ==
  /\ headings \in SeqsUpTo(HeadingTags, MaxHeadings)
  /\ headingResult = [impl \in {"TestHelpers", "BasePage"} |-> NoResult]
  /\ AxeIdle /\ ImageIdle /\ AriaIdle /\ KbIdle /\ ErrIdle /\ AuditIdle /\ ChecksIdle

TestHelpersCheckHeadingHierarchy ==
  /\ ~headingResult["TestHelpers"].done
  /\ headingResult' =
       [headingResult EXCEPT !["TestHelpers"] = CheckHeadingHierarchy(headings)]
  /\ UNCHANGED <<headings, axeVars, imageVars, ariaVars, kbVars, errVars, auditVars, checkVars>>

BasePageCheckHeadingHierarchyCall ==
  /\ ~headingResult["BasePage"].done
  /\ headingResult' =
       [headingResult EXCEPT !["BasePage"] = BasePageCheckHeadingHierarchy(headings)]
  /\ UNCHANGED <<headings, axeVars, imageVars, ariaVars, kbVars, errVars, auditVars, checkVars>>

HeadingNext ==
  \/ TestHelpersCheckHeadingHierarchy
  \/ BasePageCheckHeadingHierarchyCall

SpecHeading == HeadingInit /\ [][HeadingNext]_vars

(***************************************************************************)
(* Specification of the ARIA check: the page holds any elements, with or   *)
(* without a role attribute.                                               *)
(***************************************************************************)
Chars_button == <<"b","u","t","t","o","n">>

\* role attribute values a page may carry (null: no role attribute)
PageRoles ==
  { Null, Str(<<>>), Str(Chars_button), Str(Chars_main), Str(<<"M","A","I","N">>),
    Str(Chars_banner), Str(<<"f","o","o">>), Str(<<"F","o","o">>) }

PageElements == [tag : {"div", "nav"}, role : PageRoles]

AriaInit ==
  /\ elements \in SeqsUpTo(PageElements, MaxRoleElems)
  /\ ariaResult = NoResult
  /\ AxeIdle /\ HeadingIdle /\ ImageIdle /\ KbIdle /\ ErrIdle /\ AuditIdle /\ ChecksIdle

TestHelpersCheckARIAImplementation ==
  /\ ~ariaResult.done
  /\ ariaResult' = CheckARIAImplementation(elements)
  /\ UNCHANGED <<elements, axeVars, headingVars, imageVars, kbVars, errVars, auditVars, checkVars>>

AriaNext ==
  \/ TestHelpersCheckARIAImplementation

SpecARIA == AriaInit /\ [][AriaNext]_vars

(***************************************************************************)
(* Specification of the keyboard probe.  The page holds any number of      *)
(* focusable elements; after each Tab press the browser does or does not   *)
(* show a visible focused element within the timeout.                      *)
(***************************************************************************)
MaxElementsArgs == {-1, 0, 1, 2, 3, DefaultMaxElements}

KeyboardInit ==
  /\ focusableElements \in 0..MaxFocusable
  /\ maxElements \in MaxElementsArgs
  /\ kbPc = "start"
  /\ kbI = 0
  /\ navigatedElements = 0
  /\ kbCalls = <<>>
  /\ kbResult = NoResult
  /\ AxeIdle /\ HeadingIdle /\ ImageIdle /\ AriaIdle /\ ErrIdle /\ AuditIdle /\ ChecksIdle

kbFrame == <<focusableElements, maxElements, axeVars, headingVars, imageVars,
            ariaVars, errVars, auditVars, checkVars>>

\* await page.locator(...).all(); let navigatedElements = 0
KbLocate ==
  /\ kbPc = "start"
  /\ kbCalls' = Append(kbCalls, "locate")
  /\ navigatedElements' = 0
  /\ kbPc' = "guard"
  /\ UNCHANGED <<kbI, kbResult, kbFrame>>

\* the guard holds: await focusableElements[0].focus(); i = 0
KbFocusFirst ==
  /\ kbPc = "guard"
  /\ HasFocusable(focusableElements)
  /\ IF focusableElements > 0
       THEN /\ kbCalls' = Append(kbCalls, "focus")
            /\ kbI' = 0
            /\ kbPc' = "loop"
            /\ UNCHANGED kbResult
       ELSE /\ kbResult' = KeyboardTypeError
            /\ kbPc' = "done"
            /\ UNCHANGED <<kbCalls, kbI>>
  /\ UNCHANGED <<navigatedElements, kbFrame>>

\* the guard fails: fall through to the return statement
KbNoFocusable ==
  /\ kbPc = "guard"
  /\ ~HasFocusable(focusableElements)
  /\ kbPc' = "return"
  /\ UNCHANGED <<kbI, navigatedElements, kbCalls, kbResult, kbFrame>>

\* loop test passes: await page.keyboard.press('Tab')
KbPressTab ==
  /\ kbPc = "loop"
  /\ LoopContinues(kbI, focusableElements, maxElements)
  /\ kbCalls' = Append(kbCalls, "Tab")
  /\ kbPc' = "wait"
  /\ UNCHANGED <<kbI, navigatedElements, kbResult, kbFrame>>

\* loop test fails
KbLoopEnds ==
  /\ kbPc = "loop"
  /\ ~LoopContinues(kbI, focusableElements, maxElements)
  /\ kbPc' = "return"
  /\ UNCHANGED <<kbI, navigatedElements, kbCalls, kbResult, kbFrame>>

\* await page.waitForTimeout(100)
KbWait ==
  /\ kbPc = "wait"
  /\ kbCalls' = Append(kbCalls, "waitForTimeout")
  /\ kbPc' = "verify"
  /\ UNCHANGED <<kbI, navigatedElements, kbResult, kbFrame>>

\* expect(':focus').toBeVisible resolves: navigatedElements++; i++
KbFocusVisible ==
  /\ kbPc = "verify"
  /\ kbCalls' = Append(kbCalls, "toBeVisible")
  /\ navigatedElements' = navigatedElements + 1
  /\ kbI' = kbI + 1
  /\ kbPc' = "loop"
  /\ UNCHANGED <<kbResult, kbFrame>>

\* the catch block left out of account: the loop goes on after a failure
KbFocusNotVisibleContinues ==
  /\ kbPc = "verify"
  /\ kbCalls' = Append(kbCalls, "toBeVisible rejected")
  /\ kbI' = kbI + 1
  /\ kbPc' = "loop"
  /\ UNCHANGED <<navigatedElements, kbResult, kbFrame>>

\* expect(':focus').toBeVisible throws after its timeout: catch, break
KbFocusNotVisible ==
  /\ kbPc = "verify"
  /\ kbCalls' = Append(kbCalls, "toBeVisible rejected")
  /\ kbPc' = "return"
  /\ UNCHANGED <<kbI, navigatedElements, kbResult, kbFrame>>

\* return { success: navigatedElements > 0, navigatedElements }
KbReturn ==
  /\ kbPc = "return"
  /\ kbResult' = KeyboardResult(navigatedElements)
  /\ kbPc' = "done"
  /\ UNCHANGED <<kbI, navigatedElements, kbCalls, kbFrame>>

KeyboardNext ==
  \/ KbLocate
  \/ KbFocusFirst
  \/ KbNoFocusable
  \/ KbPressTab
  \/ KbLoopEnds
  \/ KbWait
  \/ KbFocusVisible
  \/ KbFocusNotVisible
  \/ KbReturn

SpecKeyboard == KeyboardInit /\ [][KeyboardNext]_vars

\* every await of the function settles: the browser answers each call, and
\* toBeVisible resolves or rejects within its timeout
SpecKeyboardFair == SpecKeyboard /\ WF_vars(KeyboardNext)

(***************************************************************************)
(* Specification of runAxe: the caller gives or omits each option, the     *)
(* data files give the defaults, the engine answers with some violations   *)
(* or rejects.                                                             *)
(***************************************************************************)
RuleIds == {"area-alt", "aria-allowed-attr", "empty-heading"}

TagLists == {<<"wcag2a", "wcag2aa">>, <<"best-practice">>}

SitesFiles ==
  {[wcagTags |-> <<"wcag2a", "wcag2aa">>, excludeRules |-> ex] :
     ex \in {<<"empty-heading", "label-content-name-mismatch">>, <<>>}}

RulesFiles ==
  {<<"area-alt", "aria-allowed-attr", "aria-required-attr">>,
   <<"empty-heading", "area-alt">>}

EngineViolations ==
  {<<>>, <<[id |-> "area-alt"]>>, <<[id |-> "empty-heading"], [id |-> "area-alt"]>>}

AxeInit ==
  /\ options \in [tags : {Absent} \cup {Given(t) : t \in TagLists},
                  includeRules : {Absent} \cup {Given(r) : r \in SeqsUpTo(RuleIds, MaxInclude)},
                  excludeRules : {Absent} \cup {Given(r) : r \in SeqsUpTo(RuleIds, MaxExclude)}]
  /\ sites \in SitesFiles
  /\ axeRules \in RulesFiles
  /\ axePc = "start"
  /\ withTagsArg = Absent
  /\ withRulesArg = Absent
  /\ axeResults = Absent
  /\ attachments = <<>>
  /\ axeReturned = Absent
  /\ HeadingIdle /\ ImageIdle /\ AriaIdle /\ KbIdle /\ ErrIdle /\ AuditIdle /\ ChecksIdle

axeFrame == <<options, sites, axeRules, headingVars, imageVars, ariaVars, kbVars, errVars, auditVars, checkVars>>

\* resolve the options and configure the builder
RunAxeConfigure ==
  /\ axePc = "start"
  /\ LET tags         == Coalesce(options.tags, sites.wcagTags)
         includeRules == Coalesce(options.includeRules, axeRules)
         excludeRules == NewSet(Coalesce(options.excludeRules, sites.excludeRules))
     IN  /\ withTagsArg' = Given(tags)
         /\ withRulesArg' = Given(FilterRules(includeRules, excludeRules))
  /\ axePc' = "analyze"
  /\ UNCHANGED <<axeResults, attachments, axeReturned, axeFrame>>

\* await builder.analyze() resolves
RunAxeAnalyze ==
  /\ axePc = "analyze"
  /\ \E violations \in EngineViolations :
       axeResults' = Given([violations |-> violations])
  /\ axePc' = "attach"
  /\ UNCHANGED <<withTagsArg, withRulesArg, attachments, axeReturned, axeFrame>>

\* await builder.analyze() rejects: runAxe rejects with the same error
RunAxeAnalyzeRejects ==
  /\ axePc = "analyze"
  /\ axePc' = "rejected"
  /\ UNCHANGED <<withTagsArg, withRulesArg, axeResults, attachments, axeReturned, axeFrame>>

\* await testInfo.attach('axe-violations.json', ...)
RunAxeAttach ==
  /\ axePc = "attach"
  /\ attachments' = Append(attachments, AxeAttachment(axeResults.val.violations))
  /\ axePc' = "return"
  /\ UNCHANGED <<withTagsArg, withRulesArg, axeResults, axeReturned, axeFrame>>

\* the excluded rules' violations dropped from what is returned
RunAxeReturnFiltered ==
  /\ axePc = "return"
  /\ LET excludeRules == NewSet(Coalesce(options.excludeRules, sites.excludeRules))
         Kept(v) == v.id \notin excludeRules
     IN  axeReturned' = Given(SelectSeq(axeResults.val.violations, Kept))
  /\ axePc' = "done"
  /\ UNCHANGED <<withTagsArg, withRulesArg, axeResults, attachments, axeFrame>>

\* return results.violations
RunAxeReturn ==
  /\ axePc = "return"
  /\ axeReturned' = Given(axeResults.val.violations)
  /\ axePc' = "done"
  /\ UNCHANGED <<withTagsArg, withRulesArg, axeResults, attachments, axeFrame>>

AxeNext ==
  \/ RunAxeConfigure
  \/ RunAxeAnalyze
  \/ RunAxeAnalyzeRejects
  \/ RunAxeAttach
  \/ RunAxeReturn

SpecAxe == AxeInit /\ [][AxeNext]_vars

(***************************************************************************)
(* Specification of error capture.  One of the three suites runs its tests *)
(* one after the other in a worker, each on a page of its own.  The runner *)
(* sets up the page, runs the beforeEach hooks, sets up the fixtures the   *)
(* test function names, runs the body, tears the fixtures down and closes  *)
(* the page.  A page emits events while the test awaits the browser.       *)
(***************************************************************************)
Suites == {"fixtures", "basic", "tracking", "detection"}

\* the suites whose tests name the bucket fixtures: the client-side errors
\* check of the accessibility suite and the basic per-URL test
FixtureSuites == {"fixtures", "basic"}

ConsoleLevels == {"error", "warning"}

\* the levels the listener of the detection suite tells apart; "log" stands
\* for every level it does not capture
DetectionLevels == {"error", "warning", "info", "log"}

\* HTTP status codes of the responses a page receives
ResponseStatuses == {200, 404}

PageEvent(kind, level, n, errorText, hasFailure, status, p) ==
  [kind |-> kind, level |-> level, text |-> ToString(n), errorText |-> errorText,
   hasFailure |-> hasFailure, status |-> status, page |-> p]

\* the events page p can emit as its n-th event overall.  Events that no
\* listener of the running suite tells apart from a console warning (other
\* console levels, responses) are left to the suite that listens for them.
PageEvents(p, n) ==
  {PageEvent("console", l, n, "none", FALSE, 0, p) :
     l \in IF suite = "detection" THEN DetectionLevels ELSE ConsoleLevels}
  \cup {PageEvent("pageerror", "none", n, "none", FALSE, 0, p),
        PageEvent("requestfailed", "none", n, "net::ERR_FAILED", TRUE, 0, p),
        PageEvent("requestfailed", "none", n, "none", FALSE, 0, p)}
  \cup (IF suite = "detection"
          THEN {PageEvent("response", "none", n, "none", FALSE, st, p) :
                  st \in ResponseStatuses}
          ELSE {})

\* positions at which the test awaits the browser
AwaitingBrowser == {"beforeEach", "networkidle", "running", "attaching", "closing"}

ErrInit ==
  /\ suite \in Suites
  /\ testNo = 1
  /\ tPc = "start"
  /\ pageOpen = FALSE
  /\ listeners = {}
  /\ buckets = [t \in Tests |-> NoBuckets]
  /\ shared = NoShared
  /\ pending = <<>>
  /\ emitted = <<>>
  /\ softFailures = [t \in Tests |-> <<>>]
  /\ outcome = [t \in Tests |-> "none"]
  /\ atAssert = [t \in Tests |-> NotAsserted]
  /\ consoleReport = NoReport
  /\ AxeIdle /\ HeadingIdle /\ ImageIdle /\ AriaIdle /\ KbIdle /\ AuditIdle /\ ChecksIdle

errOthers == <<suite, axeVars, headingVars, imageVars, ariaVars, kbVars, auditVars, checkVars>>

errFrame == <<consoleReport, errOthers>>

\* the texts an array of entries holds (the last element of a formatted
\* string, the text field of a record)
BucketTexts(bucket) == {bucket[k][Len(bucket[k])] : k \in DOMAIN bucket}

MessageTexts(messages) == {messages[k].text : k \in DOMAIN messages}

\* the page fixture: a new page for the test
PageSetup ==
  /\ tPc = "start"
  /\ pageOpen' = TRUE
  /\ tPc' = IF suite = "fixtures" THEN "beforeEach"
            ELSE IF suite = "basic" THEN "consoleErrors"
            ELSE "hooks"
  /\ UNCHANGED <<testNo, listeners, buckets, shared, pending, emitted,
                 softFailures, outcome, atAssert, errFrame>>

\* the page emits an event: the listeners attached to it run
PageEmits ==
  /\ pageOpen
  /\ tPc \in AwaitingBrowser
  /\ Len(emitted) < MaxEvents
  /\ \E e \in PageEvents(testNo, Len(emitted) + 1) :
       /\ emitted' = Append(emitted, [event |-> e, at |-> tPc])
       /\ buckets' = IF suite \in FixtureSuites
                       THEN [buckets EXCEPT ![e.page] = FixtureDeliver(@, listeners, e)]
                       ELSE buckets
       /\ shared' = IF suite = "tracking" /\ <<e.page, e.kind>> \in listeners
                      THEN TrackingDeliver(shared, e)
                    ELSE IF suite = "detection" /\ <<e.page, e.kind>> \in listeners
                      THEN DetectionDeliver(shared, e)
                    ELSE shared
       /\ pending' = IF /\ suite = "detection"
                        /\ e.kind = "console"
                        /\ <<e.page, e.kind>> \in listeners
                        /\ DetectionCaptures(e)
                       THEN Append(pending, e) ELSE pending
  /\ UNCHANGED <<testNo, tPc, pageOpen, listeners, softFailures, outcome,
                 atAssert, errFrame>>

\* part_001 beforeEach: inject the audit library, goto, wait for network idle
BeforeEachNavigates ==
  /\ suite = "fixtures"
  /\ tPc = "beforeEach"
  /\ tPc' = "consoleErrors"
  /\ UNCHANGED <<testNo, pageOpen, listeners, buckets, shared, pending, emitted,
                 softFailures, outcome, atAssert, errFrame>>

\* consoleErrors fixture: const bucket = []; page.on('console', ...); use(bucket)
SetupConsoleErrors ==
  /\ tPc = "consoleErrors"
  /\ buckets' = [buckets EXCEPT ![testNo].consoleErrors = <<>>]
  /\ listeners' = listeners \cup {<<testNo, "console">>}
  /\ tPc' = "pageErrors"
  /\ UNCHANGED <<testNo, pageOpen, shared, pending, emitted, softFailures,
                 outcome, atAssert, errFrame>>

\* pageErrors fixture
SetupPageErrors ==
  /\ tPc = "pageErrors"
  /\ buckets' = [buckets EXCEPT ![testNo].pageErrors = <<>>]
  /\ listeners' = listeners \cup {<<testNo, "pageerror">>}
  /\ tPc' = "requestFailures"
  /\ UNCHANGED <<testNo, pageOpen, shared, pending, emitted, softFailures,
                 outcome, atAssert, errFrame>>

\* requestFailures fixture; the test body is called next
SetupRequestFailures ==
  /\ tPc = "requestFailures"
  /\ buckets' = [buckets EXCEPT ![testNo].requestFailures = <<>>]
  /\ listeners' = listeners \cup {<<testNo, "requestfailed">>}
  /\ tPc' = "body"
  /\ UNCHANGED <<testNo, pageOpen, shared, pending, emitted, softFailures,
                 outcome, atAssert, errFrame>>

\* basic test with expect in place of expect.soft: violations end the body
BasicAuditReturnsHard ==
  /\ suite = "basic"
  /\ tPc = "running"
  /\ \E violations \in {0, 1} :
       /\ softFailures' = [softFailures EXCEPT ![testNo] =
                             IF violations = 0 THEN @ ELSE Append(@, "violations")]
       /\ outcome' = [outcome EXCEPT ![testNo] =
                        IF violations = 0 THEN @ ELSE "failed"]
       /\ tPc' = IF violations = 0 THEN "audited" ELSE "teardown"
  /\ UNCHANGED <<testNo, pageOpen, listeners, buckets, shared, pending, emitted,
                 atAssert, errFrame>>

\* basic test: runAxe resolves; expect.soft(violations).toHaveLength(0)
BasicAuditReturns ==
  /\ suite = "basic"
  /\ tPc = "running"
  /\ \E violations \in {0, 1} :
       /\ softFailures' = [softFailures EXCEPT ![testNo] =
                             IF violations = 0 THEN @ ELSE Append(@, "violations")]
       /\ outcome' = [outcome EXCEPT ![testNo] =
                        IF violations = 0 THEN @ ELSE "failed"]
  /\ tPc' = "audited"
  /\ UNCHANGED <<testNo, pageOpen, listeners, buckets, shared, pending, emitted,
                 atAssert, errFrame>>

\* basic test: runAxe rejects; the body ends there and the test fails
BasicAuditRejects ==
  /\ suite = "basic"
  /\ tPc = "running"
  /\ outcome' = [outcome EXCEPT ![testNo] = "failed"]
  /\ tPc' = "teardown"
  /\ UNCHANGED <<testNo, pageOpen, listeners, buckets, shared, pending, emitted,
                 softFailures, atAssert, errFrame>>

\* expectNoClientErrors: await page.waitForLoadState('networkidle')
ExpectNoClientErrorsWaits ==
  /\ \/ suite = "fixtures" /\ tPc = "body"
     \/ suite = "basic" /\ tPc = "audited"
  /\ tPc' = "networkidle"
  /\ UNCHANGED <<testNo, pageOpen, listeners, buckets, shared, pending, emitted,
                 softFailures, outcome, atAssert, errFrame>>

\* the wait resolves: the three soft assertions run
ExpectNoClientErrorsChecks ==
  /\ tPc = "networkidle"
  /\ LET b == buckets[testNo]
         failures == ExpectNoClientErrorsAsserts(b)
     IN  /\ softFailures' = [softFailures EXCEPT ![testNo] = @ \o failures]
         /\ outcome' = [outcome EXCEPT ![testNo] =
                          IF softFailures[testNo] \o failures = <<>>
                            THEN "passed" ELSE "failed"]
         /\ atAssert' = [atAssert EXCEPT ![testNo] =
                           [seen |-> TRUE, n |-> Len(emitted),
                            texts |-> BucketTexts(b.consoleErrors)
                                      \cup BucketTexts(b.pageErrors)
                                      \cup BucketTexts(b.requestFailures)]]
  /\ tPc' = "teardown"
  /\ UNCHANGED <<testNo, pageOpen, listeners, buckets, shared, pending, emitted,
                 errFrame>>

\* the wait times out: expectNoClientErrors rejects, the test fails
ExpectNoClientErrorsTimesOut ==
  /\ tPc = "networkidle"
  /\ outcome' = [outcome EXCEPT ![testNo] = "failed"]
  /\ tPc' = "teardown"
  /\ UNCHANGED <<testNo, pageOpen, listeners, buckets, shared, pending, emitted,
                 softFailures, atAssert, errFrame>>

\* the bucket fixtures after use(bucket) returns: no statement follows
TeardownBucketFixtures ==
  /\ tPc = "teardown"
  /\ tPc' = "closing"
  /\ UNCHANGED <<testNo, pageOpen, listeners, buckets, shared, pending, emitted,
                 softFailures, outcome, atAssert, errFrame>>

\* beforeEach of the console-message suites: reset the arrays, attach the
\* listeners to the new page
BeforeEachShared ==
  /\ suite \in {"tracking", "detection"}
  /\ tPc = "hooks"
  /\ shared' = ResetShared(shared)
  /\ listeners' = listeners \cup
       (IF suite = "tracking"
          THEN {<<testNo, "console">>, <<testNo, "pageerror">>}
          ELSE {<<testNo, "console">>, <<testNo, "pageerror">>,
                <<testNo, "requestfailed">>, <<testNo, "response">>})
  /\ tPc' = "body"
  /\ UNCHANGED <<testNo, pageOpen, buckets, pending, emitted, softFailures,
                 outcome, atAssert, errFrame>>

\* the body of the basic test and of a console-message test: goto and what
\* follows it on the page
BodyNavigates ==
  /\ suite \in {"basic", "tracking", "detection"}
  /\ tPc = "body"
  /\ tPc' = "running"
  /\ UNCHANGED <<testNo, pageOpen, listeners, buckets, shared, pending, emitted,
                 softFailures, outcome, atAssert, errFrame>>

\* the console handler of the detection suite resumes after its await
HandlerResumes ==
  /\ pending # <<>>
  /\ pageOpen
  /\ tPc \in AwaitingBrowser
  /\ shared' = DetectionPush(shared, Head(pending), "serialized")
  /\ pending' = Tail(pending)
  /\ UNCHANGED <<testNo, tPc, pageOpen, listeners, buckets, emitted,
                 softFailures, outcome, atAssert, errFrame>>

\* the last step begins: the report is attached before the assertion
\* (tracking: only when messages is not empty)
ReportAttaches ==
  /\ tPc = "running"
  /\ suite = "detection" \/ (suite = "tracking" /\ shared.messages # <<>>)
  /\ consoleReport' = IF suite = "detection" THEN DetectionReport(shared)
                    ELSE consoleReport
  /\ tPc' = "attaching"
  /\ UNCHANGED <<testNo, pageOpen, listeners, buckets, shared, pending, emitted,
                 softFailures, outcome, atAssert, errOthers>>

\* expect(messages, ...).toHaveLength(0)
ExpectNoMessages ==
  /\ \/ tPc = "attaching"
     \/ tPc = "running" /\ suite = "tracking" /\ shared.messages = <<>>
  /\ outcome' = [outcome EXCEPT ![testNo] =
                   IF Len(shared.messages) = 0 THEN "passed" ELSE "failed"]
  /\ atAssert' = [atAssert EXCEPT ![testNo] =
                    [seen |-> TRUE, n |-> Len(emitted), texts |-> MessageTexts(shared.messages)]]
  /\ tPc' = "closing"
  /\ UNCHANGED <<testNo, pageOpen, listeners, buckets, shared, pending, emitted,
                 softFailures, errFrame>>

\* afterEach has run and the page fixture closes the page
PageCloses ==
  /\ tPc = "closing"
  /\ pageOpen' = FALSE
  /\ shared' = FlushPending(shared, pending)
  /\ pending' = <<>>
  /\ tPc' = "closed"
  /\ UNCHANGED <<testNo, listeners, buckets, emitted, softFailures, outcome,
                 atAssert, errFrame>>

\* the worker goes on to the next test of the file
NextTest ==
  /\ tPc = "closed"
  /\ testNo + 1 \in Tests
  /\ testNo' = testNo + 1
  /\ tPc' = "start"
  /\ UNCHANGED <<pageOpen, listeners, buckets, shared, pending, emitted,
                 softFailures, outcome, atAssert, errFrame>>

ErrNext ==
  \/ PageSetup
  \/ PageEmits
  \/ BeforeEachNavigates
  \/ SetupConsoleErrors
  \/ SetupPageErrors
  \/ SetupRequestFailures
  \/ BasicAuditReturns
  \/ BasicAuditRejects
  \/ ExpectNoClientErrorsWaits
  \/ ExpectNoClientErrorsChecks
  \/ ExpectNoClientErrorsTimesOut
  \/ TeardownBucketFixtures
  \/ BeforeEachShared
  \/ BodyNavigates
  \/ HandlerResumes
  \/ ReportAttaches
  \/ ExpectNoMessages
  \/ PageCloses
  \/ NextTest

SpecErrors == ErrInit /\ [][ErrNext]_vars

(***************************************************************************)
(* Specification of the audit tests.  One test runs: its beforeEach hook,  *)
(* the navigation, the checks before the audit, the audit call with its    *)
(* try / catch.  The environment decides whether the library loads from    *)
(* the CDN, whether the page under test defines window.axe itself, and     *)
(* whether the page passes the fallback and the heuristic checks.          *)
(***************************************************************************)
AuditTests == {"wcag", "contrast", "enhanced", "comprehensive", "basic"}

AuditEnvs ==
  [cdnUp : BOOLEAN, siteShipsAxe : BOOLEAN, fallbackOk : BOOLEAN,
   heuristicsOk : BOOLEAN]

\* numbers of violations the engine may report
ReportedViolations == {0, 1}

AuditInit ==
  /\ auTest \in AuditTests
  /\ auEnv \in AuditEnvs
  /\ auPc = IF auTest = "basic" THEN "navigate" ELSE "inject"
  /\ axeInDocument = FALSE
  /\ auAnalysis = NoAnalysis
  /\ auFallback = "none"
  /\ auOutcome = NoOutcome
  /\ AxeIdle /\ HeadingIdle /\ ImageIdle /\ AriaIdle /\ KbIdle /\ ErrIdle
  /\ ChecksIdle

auditFrame == <<auTest, auEnv, axeVars, headingVars, imageVars, ariaVars, kbVars,
                errVars, checkVars>>

\* injectAxeCore: addScriptTag and waitForFunction resolve
InjectAxeCoreResolves ==
  /\ auPc = "inject"
  /\ auEnv.cdnUp
  /\ axeInDocument' = TRUE
  /\ auPc' = "navigate"
  /\ UNCHANGED <<auAnalysis, auFallback, auOutcome, auditFrame>>

\* injectAxeCore: the script does not load; the helper warns and rethrows.
\* The hook catches it, or the hook fails and the test with it.
InjectAxeCoreRejects ==
  /\ auPc = "inject"
  /\ ~auEnv.cdnUp
  /\ IF HookCatches(auTest)
       THEN auPc' = "navigate" /\ UNCHANGED auOutcome
       ELSE auPc' = "ended" /\ auOutcome' = Failed("inject")
  /\ UNCHANGED <<axeInDocument, auAnalysis, auFallback, auditFrame>>

\* goto(url): the page shows a new document
Navigate ==
  /\ auPc = "navigate"
  /\ axeInDocument' = auEnv.siteShipsAxe
  /\ auPc' = IF auTest \in {"enhanced", "comprehensive"} THEN "heuristics" ELSE "audit"
  /\ UNCHANGED <<auAnalysis, auFallback, auOutcome, auditFrame>>

\* the steps before the audit step: their hard assertions pass or not
HeuristicSteps ==
  /\ auPc = "heuristics"
  /\ IF auEnv.heuristicsOk
       THEN auPc' = "audit" /\ UNCHANGED auOutcome
       ELSE auPc' = "ended" /\ auOutcome' = Failed("heuristics")
  /\ UNCHANGED <<axeInDocument, auAnalysis, auFallback, auditFrame>>

\* runAxe resolves; expect.soft(violations).toHaveLength(0)
AuditRunAxeResolves ==
  /\ auPc = "audit"
  /\ UsesRunAxe(auTest)
  /\ \E v \in ReportedViolations :
       /\ auAnalysis' = [state |-> "resolved", violations |-> v]
       /\ auOutcome' = IF ToHaveLengthZeroThrows(v) THEN Failed("violations")
                       ELSE auOutcome
  /\ auPc' = "done"
  /\ UNCHANGED <<axeInDocument, auFallback, auditFrame>>

\* runAxe rejects: into the catch block, or out of the test without one
AuditRunAxeRejects ==
  /\ auPc = "audit"
  /\ UsesRunAxe(auTest)
  /\ auAnalysis' = [state |-> "rejected", violations |-> 0]
  /\ IF auTest = "wcag"
       THEN auPc' = "catch" /\ UNCHANGED auOutcome
       ELSE auPc' = "ended" /\ auOutcome' = Failed("audit")
  /\ UNCHANGED <<axeInDocument, auFallback, auditFrame>>

\* runAxeAnalysis rejects: window.axe is undefined, or axe.run reports an
\* error
RunAxeAnalysisRejects ==
  /\ auPc = "audit"
  /\ UsesRunAxeAnalysis(auTest)
  /\ auAnalysis' = [state |-> "rejected", violations |-> 0]
  /\ auPc' = "catch"
  /\ UNCHANGED <<axeInDocument, auFallback, auOutcome, auditFrame>>

\* runAxeAnalysis resolves; the assertion inside the try block follows
RunAxeAnalysisResolves ==
  /\ auPc = "audit"
  /\ UsesRunAxeAnalysis(auTest)
  /\ axeInDocument
  /\ \E v \in ReportedViolations :
       /\ auAnalysis' = [state |-> "resolved", violations |-> v]
       /\ auPc' = IF AssertionInTryThrows(auTest, auAnalysis')
                    THEN "catch" ELSE "done"
  /\ UNCHANGED <<axeInDocument, auFallback, auOutcome, auditFrame>>

\* the catch block: log, then the fallback check where there is one
CatchBlock ==
  /\ auPc = "catch"
  /\ IF HasFallbackCheck(auTest)
       THEN IF auEnv.fallbackOk
              THEN auFallback' = "passed" /\ UNCHANGED auOutcome
              ELSE auFallback' = "failed" /\ auOutcome' = Failed("fallback")
       ELSE UNCHANGED <<auFallback, auOutcome>>
  /\ auPc' = "done"
  /\ UNCHANGED <<axeInDocument, auAnalysis, auditFrame>>

\* the body returns: the test passes unless an assertion failed
TestEnds ==
  /\ auPc = "done"
  /\ auOutcome' = IF auOutcome.status = "none"
                    THEN [status |-> "passed", by |-> "none"] ELSE auOutcome
  /\ auPc' = "ended"
  /\ UNCHANGED <<axeInDocument, auAnalysis, auFallback, auditFrame>>

AuditNext ==
  \/ InjectAxeCoreResolves
  \/ InjectAxeCoreRejects
  \/ Navigate
  \/ HeuristicSteps
  \/ AuditRunAxeResolves
  \/ AuditRunAxeRejects
  \/ RunAxeAnalysisRejects
  \/ RunAxeAnalysisResolves
  \/ CatchBlock
  \/ TestEnds

SpecAudit == AuditInit /\ [][AuditNext]_vars

(***************************************************************************)
(* Specification of repeated checks.  Two calls of one heuristic check are *)
(* made one after the other on one page, by the same implementation or by  *)
(* two of them.  The page's DOM is what the calls read; the keyboard probe *)
(* also moves the focus.                                                   *)
(***************************************************************************)
Implementations(check) ==
  IF check = "aria" THEN {"TestHelpers", "inline"}
  ELSE IF check = "keyboard" THEN {"TestHelpers", "BasePage"}
  ELSE {"TestHelpers", "BasePage", "inline"}

Plans(check) == [1..2 -> Implementations(check)]

NoPage ==
  /\ focusableElements = 0
  /\ maxElements = 0
  /\ focusVisible = <<>>
  /\ tabWraps = FALSE
  /\ focused = 0

ChecksInit ==
  /\ chResults = <<>>
  /\ \/ /\ chCheck = "heading"
        /\ headings \in SeqsUpTo(HeadingTags, MaxHeadings)
        /\ images = <<>> /\ elements = <<>> /\ NoPage
     \/ /\ chCheck = "image"
        /\ images \in SeqsUpTo(ImageElements, MaxImages)
        /\ headings = <<>> /\ elements = <<>> /\ NoPage
     \/ /\ chCheck = "aria"
        /\ elements \in SeqsUpTo(PageElements, MaxRoleElems)
        /\ headings = <<>> /\ images = <<>> /\ NoPage
     \/ /\ chCheck = "keyboard"
        /\ focusableElements \in 0..MaxFocusable
        /\ maxElements \in MaxElementsArgs
        /\ focusVisible \in [1..focusableElements -> BOOLEAN]
        /\ tabWraps \in BOOLEAN
        /\ focused \in {0, focusableElements}
        /\ headings = <<>> /\ images = <<>> /\ elements = <<>>
  /\ chPlan \in Plans(chCheck)
  /\ headingResult = [impl \in {"TestHelpers", "BasePage"} |-> NoResult]
  /\ imageResult = [impl \in {"TestHelpers", "BasePage"} |-> NoResult]
  /\ ariaResult = NoResult
  /\ kbPc = "idle" /\ kbI = 0 /\ navigatedElements = 0 /\ kbCalls = <<>>
  /\ kbResult = NoResult
  /\ AxeIdle /\ ErrIdle /\ AuditIdle

\* the call that is due is the check by the implementation
Due(check, impl) ==
  /\ chCheck = check
  /\ Len(chResults) < Len(chPlan)
  /\ chPlan[Len(chResults) + 1] = impl

checksFrame == <<chCheck, chPlan, headings, images, elements, focusableElements,
                 maxElements, focusVisible, tabWraps, headingResult, imageResult,
                 ariaResult, kbPc, kbI, navigatedElements, kbCalls, kbResult,
                 axeVars, errVars, auditVars>>

CallCheckHeadingHierarchy ==
  /\ Due("heading", "TestHelpers")
  /\ chResults' = Append(chResults, CheckHeadingHierarchy(headings))
  /\ UNCHANGED <<focused, checksFrame>>

CallBasePageCheckHeadingHierarchy ==
  /\ Due("heading", "BasePage")
  /\ chResults' = Append(chResults, BasePageCheckHeadingHierarchy(headings))
  /\ UNCHANGED <<focused, checksFrame>>

CallInlineHeadingCheck ==
  /\ Due("heading", "inline")
  /\ chResults' = Append(chResults, InlineHeadingCheck(headings))
  /\ UNCHANGED <<focused, checksFrame>>

CallCheckImageAccessibility ==
  /\ Due("image", "TestHelpers")
  /\ chResults' = Append(chResults, CheckImageAccessibility(images))
  /\ UNCHANGED <<focused, checksFrame>>

CallBasePageCheckImageAccessibility ==
  /\ Due("image", "BasePage")
  /\ chResults' = Append(chResults, BasePageCheckImageAccessibility(images))
  /\ UNCHANGED <<focused, checksFrame>>

CallInlineImageCheck ==
  /\ Due("image", "inline")
  /\ chResults' = Append(chResults, InlineImageCheck(images))
  /\ UNCHANGED <<focused, checksFrame>>

CallCheckARIAImplementation ==
  /\ Due("aria", "TestHelpers")
  /\ chResults' = Append(chResults, CheckARIAImplementation(elements))
  /\ UNCHANGED <<focused, checksFrame>>

CallInlineAriaCheck ==
  /\ Due("aria", "inline")
  /\ chResults' = Append(chResults, InlineAriaCheck(elements))
  /\ UNCHANGED <<focused, checksFrame>>

CallTestKeyboardNavigation ==
  /\ Due("keyboard", "TestHelpers")
  /\ LET out == TestKeyboardNavigation(focusableElements, maxElements, focusVisible,
                                       tabWraps, focused)
     IN  /\ chResults' = Append(chResults, out.result)
         /\ focused' = out.focused
  /\ UNCHANGED checksFrame

CallBasePageTestKeyboardNavigation ==
  /\ Due("keyboard", "BasePage")
  /\ LET out == BasePageTestKeyboardNavigation(focusableElements, maxElements,
                                               focusVisible, tabWraps, focused)
     IN  /\ chResults' = Append(chResults, out.result)
         /\ focused' = out.focused
  /\ UNCHANGED checksFrame

ChecksNext ==
  \/ CallCheckHeadingHierarchy
  \/ CallBasePageCheckHeadingHierarchy
  \/ CallInlineHeadingCheck
  \/ CallCheckImageAccessibility
  \/ CallBasePageCheckImageAccessibility
  \/ CallInlineImageCheck
  \/ CallCheckARIAImplementation
  \/ CallInlineAriaCheck
  \/ CallTestKeyboardNavigation
  \/ CallBasePageTestKeyboardNavigation

SpecChecks == ChecksInit /\ [][ChecksNext]_vars

(***************************************************************************)
(* Claims about checkHeadingHierarchy (SpecHeading).                       *)
(***************************************************************************)
Impls == {"TestHelpers", "BasePage"}

PageLevels == HeadingLevels(headings)

\* consecutive pairs (k-1, k) of a level sequence whose levels differ by more than 2
FlaggedPairs(l) ==
  {k \in 2..Len(l) : l[k] - l[k - 1] > 2 \/ l[k - 1] - l[k] > 2}

FirstFlagged(l) == Len(l) > 0 /\ l[1] \in 4..6

\* C2: every heading sequence whose first level is at most 3 and in which no
\* two consecutive levels differ by more than 2 (the empty sequence included)
\* is reported valid, with an empty issue list, by both implementations.
C2_LenientSequencesValid ==
  \A impl \in Impls :
    (headingResult[impl].done /\ ~FirstFlagged(PageLevels)
       /\ FlaggedPairs(PageLevels) = {})
    => (headingResult[impl].isValid = TRUE /\ headingResult[impl].issues = <<>>)

\* a checked page that opens with h3 and then jumps by exactly two levels
C2_Witness ==
  /\ headingResult["TestHelpers"].done /\ headingResult["BasePage"].done
  /\ Len(PageLevels) = 3 /\ PageLevels[1] = 3
  /\ PageLevels[2] = 5 /\ PageLevels[3] = 3
  /\ headingResult["TestHelpers"].isValid

\* C3: the number of issues is (1 if the first level exceeds 3) plus the number
\* of consecutive pairs whose levels differ by more than 2 in either direction,
\* each such pair being reported with its two levels; [h1,h4] gives one issue
\* and [h1,h3] none.
C3_IssueCount ==
  \A impl \in Impls :
    headingResult[impl].done =>
      LET r == headingResult[impl]
          l == PageLevels
      IN  /\ Len(r.issues) = (IF FirstFlagged(l) THEN 1 ELSE 0)
                               + Cardinality(FlaggedPairs(l))
          /\ \A k \in FlaggedPairs(l) :
               \E j \in 1..Len(r.issues) : r.issues[j] = SkipIssue(l[k - 1], l[k])
          /\ FirstFlagged(l) <=> (r.issues # <<>> /\ r.issues[1] = FirstHeadingIssue)
          /\ (l = <<1, 4>> => Len(r.issues) = 1)
          /\ (l = <<1, 3>> => Len(r.issues) = 0)

\* a checked page flagged for its first heading, a jump up and a jump down
C3_Witness ==
  /\ headingResult["TestHelpers"].done
  /\ PageLevels = <<4, 1, 4>>
  /\ Len(headingResult["TestHelpers"].issues) = 3

\* C4: isValid is true exactly when the issues list is empty.
C4_ValidIffNoIssues ==
  \A impl \in Impls :
    headingResult[impl].done =>
      (headingResult[impl].isValid <=> headingResult[impl].issues = <<>>)

\* a checked page with two issues, reported invalid
C4_Witness ==
  /\ headingResult["TestHelpers"].done
  /\ Len(headingResult["TestHelpers"].issues) = 2
  /\ headingResult["TestHelpers"].isValid = FALSE

(***************************************************************************)
(* Claims about checkImageAccessibility (SpecImage).                       *)
(***************************************************************************)
\* the alt attribute is absent, empty, or made of whitespace only
AltMissing(alt) ==
  alt.isNull \/ \A j \in 1..Len(alt.str) : alt.str[j] \in Whitespace

Decorative(role) ==
  role = Str(Chars_presentation) \/ role = Str(Chars_none)

ImagesMissingAlt ==
  {k \in 1..Len(images) : ~Decorative(images[k].role) /\ AltMissing(images[k].alt)}

ExampleImages ==
  << [alt |-> Str(<<>>),     role |-> Null],
     [alt |-> Str(Chars_cat), role |-> Null],
     [alt |-> Null,          role |-> Str(Chars_presentation)] >>

\* |p * t - 100 * w| <= 100 * w * 2^-51 in exact arithmetic: p is 100 * w / t
\* up to the two roundings of (w / t) * 100
WithinRounding(p, w, t) ==
  IF p.kind # "num" THEN p.kind = "zero" /\ w = 0
  ELSE LET a  == BigMulSmall(p.sig, t)
           b  == BigShl(NatBits(100 * w), -p.exp)
           a2 == BigShl(a, SignificandBits - 2)
           b2 == BigShl(b, SignificandBits - 2)
       IN  /\ p.exp < 0
           /\ BigLeq(a2, BigAdd(b2, b))
           /\ BigLeq(b2, BigAdd(a2, b))

\* C5: an image is counted as missing alt exactly when its role is neither
\* 'presentation' nor 'none' and its alt is absent, empty or whitespace-only;
\* totalImages counts all images.  The three example images give 3 images, 1
\* without alt, and a percentage of one third of 100 (33.33...).
C5_MissingAltCount ==
  \A impl \in Impls :
    imageResult[impl].done =>
      LET r == imageResult[impl]
      IN  /\ r.totalImages = Len(images)
          /\ r.imagesWithoutAlt = Cardinality(ImagesMissingAlt)
          /\ images = ExampleImages =>
               /\ r.totalImages = 3
               /\ r.imagesWithoutAlt = 1
               /\ DLess(DFromNat(33), r.percentageWithoutAlt)
               /\ DLess(r.percentageWithoutAlt, DFromNat(34))
               /\ WithinRounding(r.percentageWithoutAlt, 1, 3)

\* the example page, checked by both implementations
C5_Witness ==
  /\ images = ExampleImages
  /\ imageResult["TestHelpers"].done /\ imageResult["BasePage"].done
  /\ imageResult["TestHelpers"].imagesWithoutAlt = 1

\* C6 as stated: 0 <= imagesWithoutAlt <= totalImages, the percentage times
\* totalImages equals imagesWithoutAlt * 100 when there are images, and the
\* percentage is 0 when there are none.  The product is taken as JavaScript
\* takes it (in doubles), the reading most favourable to the statement; the
\* exact product differs from imagesWithoutAlt * 100 in the same states.
C6_ExactPercentage ==
  \A impl \in Impls :
    imageResult[impl].done =>
      LET r == imageResult[impl]
      IN  /\ 0 <= r.imagesWithoutAlt /\ r.imagesWithoutAlt <= r.totalImages
          /\ r.totalImages > 0 =>
               DMulNat(r.percentageWithoutAlt, r.totalImages)
                 = DFromNat(r.imagesWithoutAlt * 100)
          /\ r.totalImages = 0 => r.percentageWithoutAlt = DZero

\* C6, amended: 0 <= imagesWithoutAlt <= totalImages; with no images the
\* percentage is 0 (no division by zero, never NaN); with images it is the
\* double (imagesWithoutAlt / totalImages) * 100, which lies in [0,100] and
\* whose product with totalImages equals imagesWithoutAlt * 100 only up to
\* floating-point rounding (relative error at most 2^-51).
C6_RoundedPercentage ==
  \A impl \in Impls :
    imageResult[impl].done =>
      LET r == imageResult[impl]
          p == r.percentageWithoutAlt
      IN  /\ 0 <= r.imagesWithoutAlt /\ r.imagesWithoutAlt <= r.totalImages
          /\ r.totalImages > 0 =>
               /\ DLeq(DZero, p) /\ DLeq(p, DFromNat(100))
               /\ WithinRounding(p, r.imagesWithoutAlt, r.totalImages)
               /\ (p = DZero <=> r.imagesWithoutAlt = 0)
               /\ (p = DFromNat(100) <=> r.imagesWithoutAlt = r.totalImages)
          /\ r.totalImages = 0 => p = DZero

\* a checked page on which two of three images lack alt text
C6_Witness ==
  /\ imageResult["TestHelpers"].done
  /\ imageResult["TestHelpers"].totalImages = 3
  /\ imageResult["TestHelpers"].imagesWithoutAlt = 2

(***************************************************************************)
(* Claims about checkARIAImplementation (SpecARIA).                        *)
(***************************************************************************)
SameLetter(c, d) ==
  c = d \/ \E k \in 1..26 : {c, d} = {Upper[k], Lower[k]}

EqualIgnoringCase(a, b) ==
  Len(a) = Len(b) /\ \A j \in 1..Len(a) : SameLetter(a[j], b[j])

\* the role value names an allow-listed role, in any letter case
Allowed(role) ==
  \E k \in 1..Len(ValidRoles) : EqualIgnoringCase(ValidRoles[k], role)

RoleBearing == {k \in 1..Len(elements) : ~elements[k].role.isNull}

\* elements whose role attribute names a role (is not empty) outside the list
Violating == {k \in RoleBearing : elements[k].role.str # <<>>
                                    /\ ~Allowed(elements[k].role.str)}

Chars_foo == <<"f","o","o">>

\* C7: roles are compared case-insensitively with the allow-list: an element
\* whose role is allow-listed in any letter case contributes no issue; an
\* element naming a role outside the list (e.g. "foo") contributes an issue
\* string ending in the role value as written, and validRoles is false.
C7_CaseInsensitiveRoles ==
  ariaResult.done =>
    LET r == ariaResult
    IN  /\ \A k \in RoleBearing :
             Allowed(elements[k].role.str) =>
               ~\E j \in 1..Len(r.issues) :
                  r.issues[j] = InvalidRolePrefix \o elements[k].role.str
        /\ \A k \in Violating :
             /\ r.validRoles = FALSE
             /\ \E j \in 1..Len(r.issues) :
                  /\ Contains(r.issues[j], elements[k].role.str)
                  /\ r.issues[j] = InvalidRolePrefix \o elements[k].role.str
        /\ (\E k \in RoleBearing : elements[k].role.str = Chars_foo) =>
             /\ r.validRoles = FALSE
             /\ \E j \in 1..Len(r.issues) : r.issues[j] = InvalidRolePrefix \o Chars_foo

\* a checked page with role="MAIN" (accepted) and role="Foo" (reported as written)
C7_Witness ==
  /\ ariaResult.done
  /\ Len(elements) = 2
  /\ elements[1].role = Str(<<"M","A","I","N">>)
  /\ elements[2].role = Str(<<"F","o","o">>)
  /\ ariaResult.issues = <<InvalidRolePrefix \o <<"F","o","o">> >>

\* C8 as stated: every element bearing a role attribute, whatever its value
\* (the empty string included), is reported unless the value is allow-listed:
\* the number of issues is the number of role-bearing elements whose value is
\* not in the allow-list.
C8_EveryRoleAttributeChecked ==
  ariaResult.done =>
    Len(ariaResult.issues)
      = Cardinality({k \in RoleBearing : ~Allowed(elements[k].role.str)})

\* C8, amended: the issues are, in document order, one per role-bearing
\* element whose role value is not empty and is not allow-listed; an element
\* with an empty role attribute is skipped.
C8_NonEmptyRolesChecked ==
  ariaResult.done =>
    LET r == ariaResult
        bad == SelectSeq(elements,
                 LAMBDA el : ~el.role.isNull /\ el.role.str # <<>>
                             /\ ~Allowed(el.role.str))
    IN  /\ Len(r.issues) = Cardinality(Violating)
        /\ Len(r.issues) = Len(bad)
        /\ \A j \in 1..Len(bad) : r.issues[j] = InvalidRolePrefix \o bad[j].role.str
        /\ \A k \in RoleBearing :
             elements[k].role.str = <<>> =>
               ~\E j \in 1..Len(r.issues) : r.issues[j] = InvalidRolePrefix

\* a checked page with role="" and role="foo": one issue for two role-bearing elements
C8_Witness ==
  /\ ariaResult.done
  /\ Len(elements) = 2
  /\ elements[1].role = Str(<<>>)
  /\ elements[2].role = Str(Chars_foo)
  /\ Len(ariaResult.issues) = 1

\* the page with every rejected role replaced by the valid role 'button'
WithRolesRepaired ==
  [k \in 1..Len(elements) |->
     IF k \in Violating THEN [elements[k] EXCEPT !.role = Str(Chars_button)]
     ELSE elements[k]]

LandmarkTags == {"main", "nav", "header", "footer"}

LandmarkRoles == {Chars_main, Chars_navigation, Chars_banner, Chars_contentinfo}

Landmarks(els) ==
  {k \in 1..Len(els) : \/ els[k].tag \in LandmarkTags
                       \/ (~els[k].role.isNull /\ els[k].role.str \in LandmarkRoles)}

\* C9: validRoles is true exactly when the issues list is empty, and the
\* landmark count is the number of elements matching the landmark selector
\* whatever the validity of their roles: it is the same as on the page with
\* every rejected role repaired.
C9_ValidIffNoIssuesAndLandmarks ==
  ariaResult.done =>
    /\ ariaResult.validRoles <=> ariaResult.issues = <<>>
    /\ ariaResult.landmarks = Cardinality(Landmarks(elements))
    /\ ariaResult.landmarks = Cardinality(Landmarks(WithRolesRepaired))

\* a checked page whose nav element carries the invalid role "foo"
C9_Witness ==
  /\ ariaResult.done
  /\ \E k \in 1..Len(elements) :
       elements[k].tag = "nav" /\ elements[k].role = Str(Chars_foo)
  /\ ariaResult.landmarks >= 1
  /\ ariaResult.validRoles = FALSE

(***************************************************************************)
(* Claims about testKeyboardNavigation (SpecKeyboard).                     *)
(***************************************************************************)
CallCount(name) == Cardinality({k \in 1..Len(kbCalls) : kbCalls[k] = name})

\* C10: on a page with no focusable element the probe returns
\* {success: false, navigatedElements: 0} without raising, having made no
\* focus call and pressed no key; and it does return.
C10_NoFocusableElements ==
  focusableElements = 0 =>
    /\ CallCount("focus") = 0
    /\ CallCount("Tab") = 0
    /\ kbPc \in {"start", "guard", "return", "done"}
    /\ kbPc = "done" =>
         /\ kbResult.raised = FALSE
         /\ kbResult.success = FALSE
         /\ kbResult.navigatedElements = 0

\* the probe has returned on a page without focusable elements
C10_Witness ==
  /\ focusableElements = 0
  /\ kbPc = "done"
  /\ kbResult = KeyboardResult(0)
  /\ kbCalls = <<"locate">>

(***************************************************************************)
(* Claims about runAxe (SpecAxe).                                          *)
(***************************************************************************)
IncludeList == IF options.includeRules.present THEN options.includeRules.val ELSE axeRules

ExcludeList == IF options.excludeRules.present THEN options.excludeRules.val
               ELSE sites.excludeRules

Excluded(id) == \E k \in 1..Len(ExcludeList) : ExcludeList[k] = id

\* positions of the include list whose id is not excluded
KeptPositions == {j \in 1..Len(IncludeList) : ~Excluded(IncludeList[j])}

\* the i-th kept position, counted from the left
KeptPosition(i) ==
  CHOOSE j \in KeptPositions : Cardinality({k \in KeptPositions : k <= j}) = i

\* C1: the rule list passed to withRules is the subsequence of the include
\* list whose ids are not excluded, in the include list's order; an excluded
\* id is never passed.  Include [a,b,c] with exclude {b} gives exactly [a,c].
C1_FilteredRulesPassed ==
  withRulesArg.present =>
    LET passed == withRulesArg.val
    IN  /\ Len(passed) = Cardinality(KeptPositions)
        /\ \A i \in 1..Len(passed) : passed[i] = IncludeList[KeptPosition(i)]
        /\ \A i \in 1..Len(passed) : ~Excluded(passed[i])
        /\ (/\ IncludeList = <<"area-alt", "aria-allowed-attr", "empty-heading">>
            /\ NewSet(ExcludeList) = {"aria-allowed-attr"})
           => passed = <<"area-alt", "empty-heading">>

\* the example: three rules included, the middle one excluded
C1_Witness ==
  /\ options.includeRules = Given(<<"area-alt", "aria-allowed-attr", "empty-heading">>)
  /\ options.excludeRules = Given(<<"aria-allowed-attr">>)
  /\ withRulesArg = Given(<<"area-alt", "empty-heading">>)
  /\ axePc = "done"

(***************************************************************************)
(* Claims about testKeyboardNavigation, continued.                         *)
(***************************************************************************)
Returned == kbPc = "done" /\ kbResult.done /\ ~kbResult.raised

TabLimit == Min(focusableElements, maxElements)

\* the log entry expected at position k (from 3 on) of a run that focused
StepAt(k) ==
  IF (k - 3) % 3 = 0 THEN {"Tab"}
  ELSE IF (k - 3) % 3 = 1 THEN {"waitForTimeout"}
  ELSE {"toBeVisible", "toBeVisible rejected"}

\* C11: in every returned result, success is true exactly when
\* navigatedElements > 0, that is when at least one visible focus target was
\* observed.
C11_SuccessIffNavigated ==
  Returned =>
    /\ kbResult.success = (kbResult.navigatedElements > 0)
    /\ kbResult.success = (CallCount("toBeVisible") > 0)

\* a returned result with a transition observed
C11_Witness ==
  /\ Returned
  /\ kbResult.success
  /\ kbResult.navigatedElements = 2
  /\ CallCount("toBeVisible rejected") = 1

\* C12: after the first Tab press that shows no visible focused element no
\* further call is made; the function does not raise and returns the number
\* of observations that succeeded before it.  The first element is focused
\* before any Tab press and each iteration is press, pause, verify.
C12_StopsAtFirstFailure ==
  /\ \A k \in 1..Len(kbCalls) :
       kbCalls[k] = "toBeVisible rejected" =>
         /\ k = Len(kbCalls)
         /\ kbPc \in {"return", "done"}
         /\ navigatedElements = (k - 3) \div 3
         /\ CallCount("Tab") = navigatedElements + 1
  /\ Len(kbCalls) >= 1 => kbCalls[1] = "locate"
  /\ Len(kbCalls) >= 2 => kbCalls[2] = "focus"
  /\ \A k \in 3..Len(kbCalls) : kbCalls[k] \in StepAt(k)
  /\ kbPc = "done" =>
       /\ ~kbResult.raised
       /\ kbResult.navigatedElements = CallCount("toBeVisible")

\* two transitions observed, the third Tab press shows nothing, and the
\* function has returned 2 although more elements were left
C12_Witness ==
  /\ Returned
  /\ focusableElements = 5
  /\ maxElements = DefaultMaxElements
  /\ kbCalls[Len(kbCalls)] = "toBeVisible rejected"
  /\ CallCount("Tab") = 3
  /\ kbResult.navigatedElements = 2

\* C13 as stated: in a returned result the Tab presses and navigatedElements
\* do not exceed min(focusable elements, maxElements), whatever maxElements
\* is.
C13_BoundedByMin ==
  Returned =>
    /\ CallCount("Tab") <= TabLimit
    /\ 0 <= kbResult.navigatedElements
    /\ kbResult.navigatedElements <= TabLimit

\* C13: the function always returns; it presses Tab at most
\* min(focusable elements, maxElements) times, or not at all when that
\* minimum is negative, and navigatedElements lies between 0 and the same
\* limit; with maxElements <= 0 the result is
\* {success: false, navigatedElements: 0}.
C13_TerminatesWithinLimit ==
  /\ [](/\ CallCount("Tab") <= IF TabLimit < 0 THEN 0 ELSE TabLimit
        /\ 0 <= navigatedElements
        /\ navigatedElements <= IF TabLimit < 0 THEN 0 ELSE TabLimit
        /\ navigatedElements <= CallCount("Tab")
        /\ (Returned /\ maxElements <= 0) =>
             /\ kbResult.success = FALSE
             /\ kbResult.navigatedElements = 0
             /\ CallCount("Tab") = 0)
  /\ <>(kbPc = "done")

\* the default limit cuts the run short of the page's six elements
C13_Witness ==
  /\ Returned
  /\ focusableElements = 6
  /\ maxElements = DefaultMaxElements
  /\ CallCount("Tab") = 5
  /\ kbResult.navigatedElements = 5

(***************************************************************************)
(* Claims about error capture (SpecErrors).                                *)
(***************************************************************************)
IsPrefix(a, b) == Len(a) <= Len(b) /\ SubSeq(b, 1, Len(a)) = a

BucketNames == {"consoleErrors", "pageErrors", "requestFailures"}

\* the bucket an event belongs in, if any
OwnBucket(e) ==
  IF e.kind = "console" /\ e.level = "error" THEN "consoleErrors"
  ELSE IF e.kind = "pageerror" THEN "pageErrors"
  ELSE IF e.kind = "requestfailed" THEN "requestFailures"
  ELSE "none"

AllAttached(t) ==
  {<<t, "console">>, <<t, "pageerror">>, <<t, "requestfailed">>} \subseteq listeners

\* number of events of test t that belong in bucket name
EmittedFor(t, name) ==
  Cardinality({k \in 1..Len(emitted) :
                 emitted[k].event.page = t /\ OwnBucket(emitted[k].event) = name})

\* every event of test t so far was emitted with the fixtures set up
AllAfterSetup(t) ==
  \A k \in 1..Len(emitted) :
    emitted[k].event.page = t => emitted[k].at \in {"running", "networkidle", "closing"}

\* the step of an event e arriving with the three listeners attached
C14_EventStep ==
  LET e == emitted'[Len(emitted')].event
      own == OwnBucket(e)
  IN  /\ \A t \in Tests \ {e.page} : buckets'[t] = buckets[t]
      /\ \A name \in BucketNames :
           IF name = own
             THEN /\ Len(buckets'[e.page][name]) = Len(buckets[e.page][name]) + 1
                  /\ IsPrefix(buckets[e.page][name], buckets'[e.page][name])
                  /\ LET entry == buckets'[e.page][name][Len(buckets'[e.page][name])]
                     IN  entry[Len(entry)] = e.text
             ELSE buckets'[e.page][name] = buckets[e.page][name]

\* C14: with the bucket fixtures set up, an event changes at most its own
\* bucket: a console error, a pageerror and a requestfailed each append one
\* entry to their bucket, a console message of another level appends
\* nothing, the other buckets stay as they are; entries keep arrival order
\* and none is removed.  One uncaught exception alone gives lengths 1, 0, 0.
C14_EachEventOwnBucket ==
  /\ [][(suite \in FixtureSuites) =>
          /\ \A t \in Tests : \A name \in BucketNames :
               IsPrefix(buckets[t][name], buckets'[t][name])
          /\ emitted' = emitted => buckets' = buckets
          /\ (emitted' # emitted /\ AllAttached(testNo)) => C14_EventStep]_vars
  /\ [](suite \in FixtureSuites =>
          \A t \in Tests :
            (/\ AllAfterSetup(t)
             /\ EmittedFor(t, "pageErrors") = 1
             /\ EmittedFor(t, "consoleErrors") = 0
             /\ EmittedFor(t, "requestFailures") = 0)
            => /\ Len(buckets[t].pageErrors) = 1
               /\ Len(buckets[t].consoleErrors) = 0
               /\ Len(buckets[t].requestFailures) = 0)

\* one uncaught exception and a console warning, nothing else
C14_Witness ==
  /\ suite = "fixtures"
  /\ tPc = "teardown"
  /\ Len(emitted) = 2
  /\ AllAfterSetup(1)
  /\ EmittedFor(1, "pageErrors") = 1
  /\ EmittedFor(1, "none") = 1
  /\ Len(buckets[1].pageErrors) = 1
  /\ buckets[1].consoleErrors = <<>>
  /\ buckets[1].requestFailures = <<>>
  /\ softFailures[1] = <<"Page errors">>

\* the assertion messages of the buckets that are not empty, in the order
\* of the assertions
NonEmptyBuckets(b) ==
  (IF b.consoleErrors # <<>> THEN <<"Console errors">> ELSE <<>>)
  \o (IF b.pageErrors # <<>> THEN <<"Page errors">> ELSE <<>>)
  \o (IF b.requestFailures # <<>> THEN <<"Request failures">> ELSE <<>>)

\* C15: expectNoClientErrors waits for network idle first; when the wait is
\* over each bucket is asserted on its own: the failures reported are
\* exactly the non-empty buckets, as many as there are, and a failure on an
\* earlier bucket does not keep a later one from being asserted.
C15_SoftAssertionsIndependent ==
  /\ [][(suite \in FixtureSuites /\ atAssert'[testNo].seen /\ ~atAssert[testNo].seen) =>
          /\ tPc = "networkidle"
          /\ softFailures'[testNo] = softFailures[testNo] \o NonEmptyBuckets(buckets[testNo])
          /\ Len(softFailures'[testNo]) - Len(softFailures[testNo]) =
               Cardinality({name \in BucketNames : buckets[testNo][name] # <<>>})
          /\ softFailures'[testNo] # <<>> => outcome'[testNo] = "failed"]_vars
  /\ [](suite \in FixtureSuites =>
          \A t \in Tests :
            (\E k \in 1..Len(softFailures[t]) : softFailures[t][k] # "violations")
              => atAssert[t].seen)

\* the first and the last bucket hold an entry: both failures are reported
C15_Witness ==
  /\ suite = "fixtures"
  /\ buckets[1].consoleErrors # <<>>
  /\ buckets[1].pageErrors = <<>>
  /\ buckets[1].requestFailures # <<>>
  /\ softFailures[1] = <<"Console errors", "Request failures">>
  /\ outcome[1] = "failed"

\* the test whose page emitted the event with this text
PageOfText(text) ==
  emitted[CHOOSE k \in 1..Len(emitted) : emitted[k].event.text = text].event.page

SharedTexts ==
  MessageTexts(shared.messages) \cup MessageTexts(shared.warnings)
  \cup MessageTexts(shared.infoMessages)

FixtureTexts(t) ==
  BucketTexts(buckets[t].consoleErrors) \cup BucketTexts(buckets[t].pageErrors)
  \cup BucketTexts(buckets[t].requestFailures)

\* C16: when a test's body starts the arrays it reads are empty, and what a
\* test reads never holds an event of another test's page: neither in the
\* bucket fixtures nor in the describe-level arrays reset in beforeEach,
\* whose console handler pushes after awaiting the arguments.
C16_BucketsIsolatedPerTest ==
  /\ tPc = "body" =>
       IF suite \in FixtureSuites THEN buckets[testNo] = NoBuckets ELSE shared = NoShared
  /\ suite \in FixtureSuites =>
       \A t \in Tests : \A text \in FixtureTexts(t) : PageOfText(text) = t
  /\ (suite \in {"tracking", "detection"} /\ tPc \in {"body", "running", "attaching"}) =>
       \A text \in SharedTexts : PageOfText(text) = testNo
  /\ \A t \in Tests : \A text \in atAssert[t].texts : PageOfText(text) = t

\* the second test asserts on an error of its own page after the first
\* test's page had logged an error that was pushed only when it closed
C16_Witness ==
  /\ suite = "detection"
  /\ testNo = 2
  /\ atAssert[2].seen
  /\ atAssert[2].texts = {"2"}
  /\ atAssert[1].seen
  /\ atAssert[1].texts = {}
  /\ emitted[1].event.page = 1
  /\ emitted[1].event.level = "error"
  /\ emitted[1].at = "attaching"

\* an event that must fail the test: console error, exception, failed request
IsClientError(e) == OwnBucket(e) # "none"

\* C17 as stated: every console error, uncaught exception and failed request
\* the page emitted before the end-of-test assertion is in the asserted
\* array at that moment, and the assertion then fails.
C17_NoErrorSwallowed ==
  suite \in {"fixtures", "basic", "detection"} =>
    \A t \in Tests :
      atAssert[t].seen =>
        \A k \in 1..atAssert[t].n :
          (emitted[k].event.page = t /\ IsClientError(emitted[k].event)) =>
            /\ emitted[k].event.text \in atAssert[t].texts
            /\ outcome[t] = "failed"

\* C18 as stated: the fixture listeners are attached before the navigation
\* of the test's page begins, and an error emitted during navigation is in
\* its bucket.
C18_ListenersBeforeNavigation ==
  suite \in FixtureSuites =>
    /\ tPc \in {"beforeEach", "running"} => AllAttached(testNo)
    /\ \A k \in 1..Len(emitted) :
         (emitted[k].at \in {"beforeEach", "running"} /\ IsClientError(emitted[k].event)) =>
           emitted[k].event.text \in FixtureTexts(emitted[k].event.page)

\* the test has finished: its bucket fixtures are past use(bucket)
Finished(t) == t < testNo \/ tPc \in {"closing", "closed"}

\* C19 as stated: once the test has finished no listener of the bucket
\* fixtures is attached to its page and no entry is appended any more.
C19_ListenersTornDown ==
  suite \in FixtureSuites =>
    \A t \in Tests :
      Finished(t) =>
        /\ \A name \in {"console", "pageerror", "requestfailed"} :
             <<t, name>> \notin listeners
        /\ \A k \in 1..Len(emitted) :
             (emitted[k].event.page = t /\ emitted[k].at = "closing") =>
               emitted[k].event.text \notin FixtureTexts(t)

(***************************************************************************)
(* Claims about the audit tests (SpecAudit).                               *)
(***************************************************************************)
\* the audit engine was not available to the test: the library did not
\* load, or the audit call threw
EngineUnavailable ==
  \/ auAnalysis.state = "rejected"
  \/ auTest \in {"contrast", "enhanced", "comprehensive"} /\ ~auEnv.cdnUp

\* C20 as stated: at every call site an unavailable audit engine never fails
\* the test: the outcome is that of the weaker checks alone.
C20_UnavailableNeverFails ==
  (auPc = "ended" /\ EngineUnavailable) =>
    /\ auOutcome.by \notin {"inject", "audit"}
    /\ auFallback = "passed" => auOutcome.status = "passed"
    /\ auFallback = "failed" => auOutcome.status = "failed"

\* the audit call returned a report with at least one violation
ReportedSome == auAnalysis.state = "resolved" /\ auAnalysis.violations > 0

\* C21 as stated: in the comprehensive audit a report with a violation fails
\* the test, and the catch block is entered only when the engine was not
\* available.
C21_ViolationsFailAudit ==
  auTest = "comprehensive" =>
    /\ (auPc = "ended" /\ ReportedSome) => auOutcome.status = "failed"
    /\ auPc = "catch" => auAnalysis.state = "rejected"

\* C22 as stated: a colour-contrast test whose engine reported a
\* 'color-contrast' violation fails, and the body-text check never stands in
\* for the failed expectation.
C22_ContrastViolationsFail ==
  (auTest = "contrast" /\ auPc = "ended" /\ ReportedSome) =>
    /\ auOutcome.status = "failed"
    /\ auFallback = "none"

\* C30 as stated: after a successful injection in beforeEach the library is
\* in the document on which the test body calls runAxeAnalysis.
C30_InjectionSurvives ==
  (UsesRunAxeAnalysis(auTest) /\ auPc = "audit" /\ auEnv.cdnUp) => axeInDocument

(***************************************************************************)
(* Claims about runAxe, continued.                                         *)
(***************************************************************************)
\* C23: runAxe returns the engine's violation list as it is, also when it
\* holds violations of excluded rules, and the one artifact attached,
\* 'axe-violations.json', is the serialization of that list.
C23_ViolationsReturnedUnmodified ==
  axePc = "done" =>
    /\ axeResults.present /\ axeReturned.present
    /\ axeReturned.val = axeResults.val.violations
    /\ Len(attachments) = 1
    /\ attachments[1].name = "axe-violations.json"
    /\ attachments[1].body = Stringify(axeReturned.val)

\* a returned list of two violations, the first of an excluded rule
C23_Witness ==
  /\ axePc = "done"
  /\ axeReturned = Given(<<[id |-> "empty-heading"], [id |-> "area-alt"]>>)
  /\ Excluded("empty-heading")
  /\ Len(attachments) = 1

TagList == IF options.tags.present THEN options.tags.val ELSE sites.wcagTags

InList(id, list) == \E k \in 1..Len(list) : list[k] = id

\* C29: each of tags, includeRules and excludeRules is resolved on its own.
\* The tags passed are the caller's or the default, whatever the rule
\* options are; the rules passed come from the caller's include list or the
\* default one; an include list given alone is filtered by the default
\* excludes; an explicit empty exclude list filters nothing.
C29_OptionsResolvedIndependently ==
  withRulesArg.present =>
    LET passed == withRulesArg.val
    IN  /\ withTagsArg = Given(TagList)
        /\ \A i \in 1..Len(passed) :
             InList(passed[i], IF options.includeRules.present
                                 THEN options.includeRules.val ELSE axeRules)
        /\ (options.includeRules.present /\ ~options.excludeRules.present) =>
             /\ \A i \in 1..Len(passed) : ~InList(passed[i], sites.excludeRules)
             /\ \A k \in 1..Len(options.includeRules.val) :
                  InList(options.includeRules.val[k], sites.excludeRules)
                  \/ InList(options.includeRules.val[k], passed)
        /\ options.excludeRules = Given(<<>>) => passed = IncludeList

\* includeRules given alone: the default excludes are applied to it
C29_Witness ==
  /\ options.includeRules = Given(<<"empty-heading", "area-alt">>)
  /\ ~options.excludeRules.present
  /\ ~options.tags.present
  /\ InList("empty-heading", sites.excludeRules)
  /\ withRulesArg = Given(<<"area-alt">>)
  /\ withTagsArg = Given(sites.wcagTags)

(***************************************************************************)
(* Claims about repeated and duplicated checks (SpecChecks).               *)
(***************************************************************************)
BothCalled == Len(chResults) = 2

HelpersThen(check, impl) ==
  /\ chCheck = check
  /\ BothCalled
  /\ chPlan = <<"TestHelpers", impl>>

\* what C28 says of BasePage and of the inline heading and image checks
DuplicatesAgree ==
  /\ \A check \in {"heading", "image", "keyboard"} :
       HelpersThen(check, "BasePage") => chResults[2] = chResults[1]
  /\ HelpersThen("heading", "inline") =>
       (chResults[2].passed <=> Len(chResults[1].issues) = 0)
  /\ HelpersThen("image", "inline") =>
       chResults[2].percentageWithoutAlt = chResults[1].percentageWithoutAlt

\* C28 as stated: the inline ARIA check passes exactly when the TestHelpers
\* result has validRoles = true.
C28_InlineAgreesWithHelpers ==
  /\ DuplicatesAgree
  /\ HelpersThen("aria", "inline") =>
       (chResults[2].passed <=> chResults[1].validRoles)

\* C28, amended: the BasePage checks return what the TestHelpers checks
\* return; the inline heading check passes exactly when TestHelpers reports
\* no issue; the inline image check computes the same percentage; the inline
\* ARIA check passes exactly when TestHelpers reports validRoles = true and at
\* least one landmark.
C28_ImplementationsAgree ==
  /\ DuplicatesAgree
  /\ HelpersThen("aria", "inline") =>
       (chResults[2].passed <=> (chResults[1].validRoles /\ chResults[1].landmarks > 0))

\* a page without landmarks whose one role is valid: TestHelpers reports
\* valid roles, the inline test fails
C28_Witness ==
  /\ HelpersThen("aria", "inline")
  /\ elements = <<[tag |-> "div", role |-> Str(Chars_button)]>>
  /\ chResults[1].validRoles
  /\ chResults[1].landmarks = 0
  /\ ~chResults[2].passed

(***************************************************************************)
(* Claims about error capture, continued.                                  *)
(***************************************************************************)
\* the events of page t that its requestfailed listener received
FailedRequests(t) ==
  SelectSeq(emitted, LAMBDA m : /\ m.event.page = t
                                /\ m.event.kind = "requestfailed"
                                /\ (suite = "fixtures" => m.at # "beforeEach"))

\* the entries of messages that stand for failed requests
RequestFailedEntries == SelectSeq(shared.messages, LAMBDA m : m.type = "request failed")

\* test t has its listeners attached and its arrays are its own
Capturing(t) ==
  /\ t = testNo
  /\ tPc \in {"running", "networkidle", "attaching", "teardown", "closing", "closed"}

\* C25, the fixture variant: one entry per failed request, holding the
\* reason the request carries and its URL
FixtureOneEntryPerFailedRequest ==
  suite \in FixtureSuites =>
    \A t \in Tests :
      /\ Len(buckets[t].requestFailures) = Len(FailedRequests(t))
      /\ \A k \in 1..Len(FailedRequests(t)) :
           LET e == FailedRequests(t)[k].event
               entry == buckets[t].requestFailures[k]
           IN  /\ entry[4] = e.text
               /\ e.hasFailure => entry[2] = e.errorText

\* C25 as stated: in the fixture variant and in the extended variant, every
\* request that fails, with or without a failure record, adds one entry.
C25_OneEntryPerFailedRequest ==
  /\ FixtureOneEntryPerFailedRequest
  /\ (suite = "detection" /\ Capturing(testNo)) =>
       /\ Len(RequestFailedEntries) = Len(FailedRequests(testNo))
       /\ \A k \in 1..Len(RequestFailedEntries) :
            RequestFailedEntries[k].text = FailedRequests(testNo)[k].event.text

\* the events of the running test that belong in an array, by array
RoutedTo(e) ==
  IF e.kind = "console" /\ e.level = "error" THEN "messages"
  ELSE IF e.kind = "pageerror" THEN "messages"
  ELSE IF e.kind = "requestfailed" /\ e.hasFailure THEN "messages"
  ELSE IF e.kind = "console" /\ e.level = "warning" THEN "warnings"
  ELSE IF e.kind = "response" /\ e.status >= 400 THEN "warnings"
  ELSE IF e.kind = "console" /\ e.level = "info" THEN "infoMessages"
  ELSE "none"

\* the type an entry for the event carries
EntryType(e) ==
  IF e.kind = "console" THEN e.level
  ELSE IF e.kind = "pageerror" THEN "uncaught exception"
  ELSE IF e.kind = "requestfailed" THEN "request failed"
  ELSE "http error"

ArrayNames == {"messages", "warnings", "infoMessages"}

\* the texts of the captured events of the running test routed to an array,
\* and of those among them whose console handler has not pushed yet
CapturedFor(name) ==
  {emitted[k].event.text : k \in {j \in 1..Len(emitted) :
      emitted[j].event.page = testNo /\ RoutedTo(emitted[j].event) = name}}

PendingFor(name) ==
  {pending[k].text : k \in {j \in 1..Len(pending) : RoutedTo(pending[j]) = name}}

EventOfText(text) ==
  emitted[CHOOSE k \in 1..Len(emitted) : emitted[k].event.text = text].event

RECURSIVE SumCounts(_)
SumCounts(counts) ==
  IF DOMAIN counts = {} THEN 0
  ELSE LET t == CHOOSE x \in DOMAIN counts : TRUE
       IN  counts[t] + SumCounts([x \in DOMAIN counts \ {t} |-> counts[x]])

\* C26: in the extended suite an array holds exactly the captured events
\* routed to it whose handler has pushed, once each and under the type of
\* the event: console error, uncaught exception and failed request (with its
\* failure record) in messages, console warning and HTTP status >= 400 in
\* warnings, console info in infoMessages, nothing else anywhere.  The
\* assertion fails the test exactly when messages is not empty, and the
\* report's totalErrors is the sum of its errorTypes counts.
C26_EventsRoutedByKind ==
  /\ []((suite = "detection" /\ Capturing(testNo)) =>
          \A name \in ArrayNames :
            /\ MessageTexts(shared[name]) = CapturedFor(name) \ PendingFor(name)
            /\ Len(shared[name]) = Cardinality(MessageTexts(shared[name]))
            /\ \A k \in 1..Len(shared[name]) :
                 shared[name][k].type = EntryType(EventOfText(shared[name][k].text)))
  /\ [][(suite = "detection" /\ outcome' # outcome) =>
          /\ outcome'[testNo] = (IF shared.messages # <<>> THEN "failed" ELSE "passed")
          /\ outcome'[testNo] \in {"passed", "failed"}]_vars
  /\ [](suite = "detection" =>
          /\ consoleReport.totalErrors = SumCounts(consoleReport.errorTypes)
          /\ consoleReport.totalWarnings = SumCounts(consoleReport.warningTypes))

\* a console warning and an HTTP 404 were captured and reported, and the
\* test passed
C26_Witness ==
  /\ suite = "detection"
  /\ testNo = 1
  /\ tPc = "closing"
  /\ Len(shared.warnings) = 2
  /\ shared.warnings[1].type = "http error"
  /\ shared.warnings[2].type = "warning"
  /\ shared.messages = <<>>
  /\ consoleReport.attached
  /\ consoleReport.totalWarnings = 2
  /\ outcome[1] = "passed"

\* C27: in the basic test the audit step that returned, with or without
\* violations, is followed by expectNoClientErrors in the same test: only a
\* rejected audit ends the body, the violations failure is recorded and
\* kept, and the client-error failures are added after it.
C27_ClientErrorsCheckedAfterAudit ==
  /\ [][(suite = "basic" /\ tPc = "running" /\ tPc' # tPc) =>
          \/ /\ tPc' = "audited"
             /\ IsPrefix(softFailures[testNo], softFailures'[testNo])
          \/ /\ tPc' = "teardown"
             /\ softFailures' = softFailures]_vars
  /\ [][(suite = "basic" /\ tPc = "audited") =>
          /\ tPc' = "networkidle"
          /\ testNo' = testNo
          /\ softFailures' = softFailures]_vars
  /\ [][(suite = "basic" /\ atAssert'[testNo].seen /\ ~atAssert[testNo].seen) =>
          /\ tPc = "networkidle"
          /\ softFailures'[testNo] =
               softFailures[testNo] \o NonEmptyBuckets(buckets[testNo])]_vars
  /\ [](suite = "basic" =>
          \A t \in Tests :
            (\E k \in 1..Len(softFailures[t]) : softFailures[t][k] = "violations")
              => /\ softFailures[t][1] = "violations"
                 /\ outcome[t] = "failed")

\* violations and an uncaught exception, both reported by one test
C27_Witness ==
  /\ suite = "basic"
  /\ softFailures[1] = <<"violations", "Page errors">>
  /\ atAssert[1].seen
  /\ outcome[1] = "failed"
====
